---- MODULE Spec2Model ----
(***************************************************************************)
(* boottime: acquisition of boot durations from several sources            *)
(* (systemd-analyze, systemd D-Bus, EFI variables), their merge into a     *)
(* stage x method record appended to a .jsonl file, and the averaging of   *)
(* the persisted records.  The decoders, the ACPI FPDT decoder among them,  *)
(* are also run on their own, one call on one input.                       *)
(*                                                                         *)
(* Durations are time.Duration values (int64 nanoseconds).  The model      *)
(* draws them from small ranges; Go's two's-complement arithmetic on       *)
(* uint64/int64 is congruent to integer arithmetic modulo 2^64, so inside  *)
(* these ranges the int64 result is the integer result (a uint64           *)
(* difference a-b with a < b, converted to time.Duration, is the negative  *)
(* integer a-b).                                                           *)
(***************************************************************************)
EXTENDS Integers, Sequences, FiniteSets, TLC

VARIABLES
  file,      \* the .jsonl file: [exists, lines]
  pc,        \* "idle" | "running": a RunAnalysis call between g.Go and g.Wait
  tasks,     \* per goroutine of the errgroup: [done, input, rec, err]
  gerr,      \* errgroup.Group.err, set once by the first failing goroutine
  order,     \* the goroutines in the order they returned
  ret,       \* what the last RunAnalysis call returned
  fileAtCall,\* the file as it was when the running/last RunAnalysis began
  file0,     \* the file before the first call
  okLines,   \* the records the successful RunAnalysis calls returned, in call order
  calls,     \* number of RunAnalysis calls begun
  avg,       \* what the last PrintRecordsAverage returned and printed
  acc,       \* a BootTimeAccumulator: [sum, count]
  added,     \* the records passed to acc.Add since it was created
  avgOut,    \* the record the last acc.Average() returned
  dec        \* the last call of a decoder on its own: [fn, in, out]

vars == <<file, pc, tasks, gerr, order, ret, fileAtCall, file0, okLines, calls,
          avg, acc, added, avgOut, dec>>

-----------------------------------------------------------------------------
(* Bounds of the model *)

\* RunAnalysis calls in one behaviour
MaxCalls == 2
\* Add calls on one accumulator
MaxAdds == 3

\* Average() calls on one accumulator
MaxAverages == 3
\* the largest number an EFI timing variable holds in one digit
MaxUsec == 3
\* the largest monotonic timestamp the manager reports
MaxTs == 2
\* the largest number of nanoseconds a sysfs attribute holds
MaxNs == 2

-----------------------------------------------------------------------------
(* model/model.go: enumerations *)

RetrievalMethodACPIFPDT == "acpi_fpdt"
RetrievalMethodEFIVar == "efi_var"
RetrievalMethodSystemdDBUS == "systemd_dbus"
RetrievalMethodSystemdAnalyze == "systemd_analyze"

allRetrievalMethods ==
  <<RetrievalMethodACPIFPDT, RetrievalMethodEFIVar,
    RetrievalMethodSystemdDBUS, RetrievalMethodSystemdAnalyze>>

BootTimeStageFirmware == "firmware"
BootTimeStageLoader == "loader"
BootTimeStageKernel == "kernel"
BootTimeStageInitrd == "initrd"
BootTimeStageUserspace == "userspace"
BootTimeStageTotal == "total"

allBootTimeStages ==
  <<BootTimeStageFirmware, BootTimeStageLoader, BootTimeStageKernel,
    BootTimeStageInitrd, BootTimeStageUserspace, BootTimeStageTotal>>

Range(s) == {s[i] : i \in DOMAIN s}

\* a Go map with no entries
EmptyMap == [k \in {} |-> 0]

\* the value of no record (a nil pointer)
Nil == [nil |-> TRUE]

\* Go's integer division truncates toward zero
GoDiv(a, b) ==
  IF a >= 0 THEN a \div b ELSE -((-a) \div b)

-----------------------------------------------------------------------------
(* Errors are chains of messages: fmt.Errorf("ctx: %w", err) puts ctx in    *)
(* front of the chain of err.  The empty chain is the nil error.            *)

NoErr == <<>>

Wrap(ctx, err) == <<ctx>> \o err

-----------------------------------------------------------------------------
(* exec/exec.go: the systemd-analyze source *)

BootTimeRecordWithSystemd ==
  [Firmware |-> 0, Loader |-> 0, Kernel |-> 0, Initrd |-> 0, Userspace |-> 0,
   Total |-> 0]

\* strings.Contains(word, sub) for the words of the model: the stage labels
\* and "=" that occur in each word
SubstringsOf(word) ==
  CASE word = "(firmware)" -> {"(firmware)"}
    [] word = "(loader)" -> {"(loader)"}
    [] word = "(kernel)" -> {"(kernel)"}
    [] word = "(initrd)" -> {"(initrd)"}
    [] word = "(userspace)" -> {"(userspace)"}
    [] word = "=" -> {"="}
    [] word = "(kernel)=" -> {"(kernel)", "="}
    [] OTHER -> {}

Contains(word, sub) == sub \in SubstringsOf(word)

\* time.ParseDuration on the words of the model: [ok, d] with d in nanoseconds
ParseDuration(word) ==
  CASE word = "0" -> [ok |-> TRUE, d |-> 0]
    [] word = "3ns" -> [ok |-> TRUE, d |-> 3]
    [] word = "1us" -> [ok |-> TRUE, d |-> 1000]
    [] word = "2us" -> [ok |-> TRUE, d |-> 2000]
    [] word = "3us" -> [ok |-> TRUE, d |-> 3000]
    [] word = "9us" -> [ok |-> TRUE, d |-> 9000]
    [] OTHER -> [ok |-> FALSE, d |-> 0]

\* the struct field the switch of the parser selects for a word ("" if none);
\* the cases are tried in the order of the source
SwitchField(word) ==
  IF Contains(word, "(firmware)") THEN "Firmware"
  ELSE IF Contains(word, "(loader)") THEN "Loader"
  ELSE IF Contains(word, "(kernel)") THEN "Kernel"
  ELSE IF Contains(word, "(initrd)") THEN "Initrd"
  ELSE IF Contains(word, "(userspace)") THEN "Userspace"
  ELSE IF Contains(word, "=") THEN "Total"
  ELSE ""

\* variant: every case parses the word that follows
SourceIndexFollowing(field, idx) == idx + 1

\* the word whose duration the case parses: words[idx-1], or words[idx+1]
\* for "="
SourceIndex(field, idx) == IF field = "Total" THEN idx + 1 ELSE idx - 1

\* the loop "for idx, word := range words" from position idx on.  An index
\* outside words is Go's run-time panic (index out of range).
RECURSIVE ParseWords(_, _, _)
ParseWords(words, idx, record) ==
  IF idx > Len(words) THEN [rec |-> record, err |-> NoErr, panic |-> FALSE]
  ELSE LET field == SwitchField(words[idx])
           src == SourceIndex(field, idx)
       IN IF field = "" THEN ParseWords(words, idx + 1, record)
          ELSE IF src < 1 \/ src > Len(words)
            THEN [rec |-> Nil, err |-> NoErr, panic |-> TRUE]
          ELSE LET p == ParseDuration(words[src])
               IN IF p.ok
                    THEN ParseWords(words, idx + 1, [record EXCEPT ![field] = p.d])
                    ELSE [rec |-> Nil, err |-> <<"time: invalid duration">>,
                          panic |-> FALSE]

\* output is the sequence of lines of the command's stdout, each a sequence of
\* words (strings.Split by "\n", then strings.Fields of the first line).
\* strings.Split never returns an empty slice, so "empty output" is dead code:
\* the empty string splits into one empty line.
ParseSystemdAnalyzeTimeOutput(output) ==
  LET lines == IF output = <<>> THEN << <<>> >> ELSE output
  IN IF Len(lines) = 0
       THEN [rec |-> Nil, err |-> <<"empty output">>, panic |-> FALSE]
       ELSE ParseWords(lines[1], 1, BootTimeRecordWithSystemd)

\* cmd: [ok, out]: whether "systemd-analyze time" exited with status 0, and
\* its stdout
RetrieveBootTimeWithSystemdAnalyze(cmd) ==
  IF ~cmd.ok
    THEN [rec |-> Nil, err |-> <<"command failed", "exit status 1">>,
          panic |-> FALSE]
    ELSE ParseSystemdAnalyzeTimeOutput(cmd.out)

-----------------------------------------------------------------------------
(* package systemd: the systemd-analyze parser with its own errors *)

ErrParseAnalyzeCommandEmptyOutput == <<"command output is empty">>

\* the context the case of a field puts in front of a duration error
DurationContext(field) ==
  CASE field = "Firmware" -> "parsing firmware duration"
    [] field = "Loader" -> "parsing loader duration"
    [] field = "Kernel" -> "parsing kernel duration"
    [] field = "Initrd" -> "parsing initrd duration"
    [] field = "Userspace" -> "parsing userspace duration"
    [] field = "Total" -> "parsing total serspace duration"

\* variant: the record filled so far is returned next to the error
ParseFailureKeepsRecord(record, field) ==
  [rec |-> record,
   err |-> Wrap(DurationContext(field), <<"time: invalid duration">>),
   panic |-> FALSE]

\* "if err != nil { return nil, err }" after the switch: record is the struct
\* as the cases before have filled it
ParseFailure(record, field) ==
  [rec |-> Nil,
   err |-> Wrap(DurationContext(field), <<"time: invalid duration">>),
   panic |-> FALSE]

\* the loop "for idx, word := range words" of ParseAnalyzeCommandOutput from
\* position idx on
RECURSIVE ParseAnalyzeWords(_, _, _)
ParseAnalyzeWords(words, idx, record) ==
  IF idx > Len(words) THEN [rec |-> record, err |-> NoErr, panic |-> FALSE]
  ELSE LET field == SwitchField(words[idx])
           src == SourceIndex(field, idx)
       IN IF field = "" THEN ParseAnalyzeWords(words, idx + 1, record)
          ELSE IF src < 1 \/ src > Len(words)
            THEN [rec |-> Nil, err |-> NoErr, panic |-> TRUE]
          ELSE LET p == ParseDuration(words[src])
               IN IF p.ok
                    THEN ParseAnalyzeWords(words, idx + 1,
                                           [record EXCEPT ![field] = p.d])
                    ELSE ParseFailure(record, field)

\* variant: the empty string is parsed like any other output
ParseAnalyzeCommandOutputUnchecked(output) ==
  ParseAnalyzeWords(IF output = <<>> THEN <<>> ELSE output[1], 1,
                    BootTimeRecordWithSystemd)

\* output as for ParseSystemdAnalyzeTimeOutput: the lines of the text, <<>>
\* for the empty string
ParseAnalyzeCommandOutput(output) ==
  IF output = <<>>
    THEN [rec |-> Nil, err |-> ErrParseAnalyzeCommandEmptyOutput, panic |-> FALSE]
    ELSE ParseAnalyzeWords(output[1], 1, BootTimeRecordWithSystemd)

\* cmd: [ok, out] as for RetrieveBootTimeWithSystemdAnalyze
RetrieveBootTimeWithAnalyzeCommand(cmd) ==
  IF ~cmd.ok
    THEN [rec |-> Nil, err |-> <<"command failed", "exit status 1">>,
          panic |-> FALSE]
    ELSE LET btr == ParseAnalyzeCommandOutput(cmd.out)
         IN IF btr.err # NoErr
              THEN [rec |-> Nil, err |-> Wrap("parsing command output", btr.err),
                    panic |-> FALSE]
              ELSE btr

-----------------------------------------------------------------------------
(* exec/exec.go: the systemd D-Bus source *)

DbusProperties ==
  {"FirmwareTimestampMonotonic", "LoaderTimestampMonotonic",
   "InitRDTimestampMonotonic", "UserspaceTimestampMonotonic",
   "FinishTimestampMonotonic"}

\* variant: a reply is stored whether or not it is a uint64
PropertyValueAnyReply(bus, name) == bus.props[name].val

\* the value a property is read as: the reply's uint64 when the Get call
\* succeeds with a uint64, else the variable keeps its zero value
PropertyValue(bus, name) ==
  IF bus.props[name].ok THEN bus.props[name].val ELSE 0

\* variant: the timestamp is taken as a number of nanoseconds
usecAsNanoseconds(us) == us

\* time.Duration(us) * time.Microsecond
usec(us) == us * 1000

\* variant: the stages are derived without the test of finishTs
RetrieveBootTimeWithDbusUnchecked(bus) ==
  IF ~bus.connOk
    THEN [rec |-> Nil, err |-> <<"failed to connect to system bus", "dial">>,
          panic |-> FALSE]
  ELSE
    LET firmwareTs == PropertyValue(bus, "FirmwareTimestampMonotonic")
        loaderTs == PropertyValue(bus, "LoaderTimestampMonotonic")
        initrdTs == PropertyValue(bus, "InitRDTimestampMonotonic")
        userspaceTs == PropertyValue(bus, "UserspaceTimestampMonotonic")
        finishTs == PropertyValue(bus, "FinishTimestampMonotonic")
        kernelDoneTime == IF initrdTs > 0 THEN initrdTs ELSE userspaceTs
    IN [rec |->
          [Firmware |-> IF firmwareTs > 0 /\ loaderTs > 0
                          THEN usec(firmwareTs - loaderTs) ELSE 0,
           Loader |-> IF loaderTs > 0 THEN usec(loaderTs) ELSE 0,
           Kernel |-> usec(kernelDoneTime),
           Initrd |-> IF initrdTs > 0 /\ userspaceTs > 0
                        THEN usec(userspaceTs - initrdTs) ELSE 0,
           Userspace |-> IF finishTs > 0 /\ userspaceTs > 0
                           THEN usec(finishTs - userspaceTs) ELSE 0,
           Total |-> IF firmwareTs > 0 /\ finishTs > 0
                       THEN usec(firmwareTs + finishTs) ELSE 0],
        err |-> NoErr, panic |-> FALSE]

\* bus: [connOk, props]: whether the system bus can be reached, and for each
\* property [ok, val]
RetrieveBootTimeWithDbus(bus) ==
  IF ~bus.connOk
    THEN [rec |-> Nil, err |-> <<"failed to connect to system bus", "dial">>,
          panic |-> FALSE]
  ELSE
    LET firmwareTs == PropertyValue(bus, "FirmwareTimestampMonotonic")
        loaderTs == PropertyValue(bus, "LoaderTimestampMonotonic")
        initrdTs == PropertyValue(bus, "InitRDTimestampMonotonic")
        userspaceTs == PropertyValue(bus, "UserspaceTimestampMonotonic")
        finishTs == PropertyValue(bus, "FinishTimestampMonotonic")
        kernelDoneTime == IF initrdTs > 0 THEN initrdTs ELSE userspaceTs
    IN IF finishTs = 0
         THEN [rec |-> Nil, err |-> <<"bootup is not yet finished">>,
               panic |-> FALSE]
         ELSE [rec |->
                 [Firmware |-> IF firmwareTs > 0 /\ loaderTs > 0
                                 THEN usec(firmwareTs - loaderTs) ELSE 0,
                  Loader |-> IF loaderTs > 0 THEN usec(loaderTs) ELSE 0,
                  Kernel |-> usec(kernelDoneTime),
                  Initrd |-> IF initrdTs > 0 /\ userspaceTs > 0
                               THEN usec(userspaceTs - initrdTs) ELSE 0,
                  Userspace |-> IF finishTs > 0 /\ userspaceTs > 0
                                  THEN usec(finishTs - userspaceTs) ELSE 0,
                  Total |-> IF firmwareTs > 0 /\ finishTs > 0
                              THEN usec(firmwareTs + finishTs) ELSE 0],
               err |-> NoErr, panic |-> FALSE]

-----------------------------------------------------------------------------
(* exec/exec.go: the EFI variable source *)

\* strings.HasPrefix(name, prefix) for the file names of the model: a name is
\* <<prefix, vendor GUID>>
HasPrefix(name, prefix) == name[1] = prefix

\* the loop over the directory entries from position i on: a matching entry
\* sets its path, and the loop breaks once both paths are set
RECURSIVE FindEFIPaths(_, _, _, _)
FindEFIPaths(entries, i, initPath, execPath) ==
  IF i > Len(entries) THEN [initPath |-> initPath, execPath |-> execPath]
  ELSE LET name == entries[i]
           ip == IF HasPrefix(name, "LoaderTimeInitUSec-") THEN name
                 ELSE initPath
           ep == IF ~HasPrefix(name, "LoaderTimeInitUSec-")
                    /\ HasPrefix(name, "LoaderTimeExecUSec-") THEN name
                 ELSE execPath
       IN IF ip # <<>> /\ ep # <<>>
            THEN [initPath |-> ip, execPath |-> ep]
            ELSE FindEFIPaths(entries, i + 1, ip, ep)

\* f: [ok, data]: whether the file can be read, and its bytes
readEFIVarValue(f) ==
  IF ~f.ok THEN [data |-> <<>>, err |-> <<"reading file", "open">>]
  ELSE IF Len(f.data) < 4 THEN [data |-> <<>>, err |-> <<"EFI var too short">>]
  ELSE [data |-> SubSeq(f.data, 5, Len(f.data)), err |-> NoErr]

\* binary.LittleEndian.Uint16 of the two bytes at (1-based) position i
Uint16LE(data, i) == data[i] + 256 * data[i + 1]

\* the UTF-16 code units of data up to the first NUL unit
RECURSIVE DecodeUnits(_, _)
DecodeUnits(data, i) ==
  IF i + 1 > Len(data) THEN <<>>
  ELSE IF Uint16LE(data, i) = 0 THEN <<>>
  ELSE <<Uint16LE(data, i)>> \o DecodeUnits(data, i + 2)

IsDigit(u) == u >= 48 /\ u <= 57

RECURSIVE DigitsValue(_, _)
DigitsValue(units, accum) ==
  IF units = <<>> THEN accum
  ELSE DigitsValue(Tail(units), accum * 10 + (Head(units) - 48))

\* strconv.ParseInt(s, 10, 64): an optional sign '+' (43) or '-' (45), then
\* one or more decimal digits
ParseInt(units) ==
  LET signed == units # <<>> /\ Head(units) \in {43, 45}
      digits == IF signed THEN Tail(units) ELSE units
  IN IF digits = <<>> \/ \E i \in DOMAIN digits : ~IsDigit(digits[i])
       THEN [ok |-> FALSE, v |-> 0]
       ELSE [ok |-> TRUE,
             v |-> IF signed /\ Head(units) = 45
                     THEN -DigitsValue(digits, 0) ELSE DigitsValue(digits, 0)]

parseEFIMicroseconds(data) ==
  IF Len(data) % 2 # 0 THEN [d |-> 0, err |-> <<"invalid UTF-16 length">>]
  ELSE LET us == ParseInt(DecodeUnits(data, 1))
       IN IF ~us.ok THEN [d |-> 0, err |-> <<"strconv.ParseInt: invalid syntax">>]
          ELSE [d |-> us.v * 1000, err |-> NoErr]

BootTimeRecordWithEFIVariables(firmware, loader) ==
  [Firmware |-> firmware, Loader |-> loader]

\* variant: a loader time below the init time gives a loader duration of 0
RetrieveBootTimeWithEFIVarsClamped(efi) ==
  IF ~efi.dirOk
    THEN [rec |-> Nil, err |-> <<"reading directory", "open">>, panic |-> FALSE]
  ELSE
    LET paths == FindEFIPaths(efi.entries, 1, <<>>, <<>>)
    IN IF paths.initPath = <<>> \/ paths.execPath = <<>>
         THEN [rec |-> Nil, err |-> <<"EFI loader timing variables not found">>,
               panic |-> FALSE]
       ELSE
         LET initRaw == readEFIVarValue(efi.files[paths.initPath])
             execRaw == readEFIVarValue(efi.files[paths.execPath])
             initTime == parseEFIMicroseconds(initRaw.data)
             execTime == parseEFIMicroseconds(execRaw.data)
         IN IF initRaw.err # NoErr
              THEN [rec |-> Nil, err |-> initRaw.err, panic |-> FALSE]
            ELSE IF execRaw.err # NoErr
              THEN [rec |-> Nil, err |-> execRaw.err, panic |-> FALSE]
            ELSE IF initTime.err # NoErr
              THEN [rec |-> Nil, err |-> initTime.err, panic |-> FALSE]
            ELSE IF execTime.err # NoErr
              THEN [rec |-> Nil, err |-> execTime.err, panic |-> FALSE]
            ELSE [rec |-> BootTimeRecordWithEFIVariables(
                            initTime.d,
                            IF execTime.d < initTime.d THEN 0
                            ELSE execTime.d - initTime.d),
                  err |-> NoErr, panic |-> FALSE]

\* efi: [dirOk, entries, files]: whether the efivars directory can be listed,
\* its entries in name order, and for each entry its file
RetrieveBootTimeWithEFIVars(efi) ==
  IF ~efi.dirOk
    THEN [rec |-> Nil, err |-> <<"reading directory", "open">>, panic |-> FALSE]
  ELSE
    LET paths == FindEFIPaths(efi.entries, 1, <<>>, <<>>)
    IN IF paths.initPath = <<>> \/ paths.execPath = <<>>
         THEN [rec |-> Nil, err |-> <<"EFI loader timing variables not found">>,
               panic |-> FALSE]
       ELSE
         LET initRaw == readEFIVarValue(efi.files[paths.initPath])
             execRaw == readEFIVarValue(efi.files[paths.execPath])
             initTime == parseEFIMicroseconds(initRaw.data)
             execTime == parseEFIMicroseconds(execRaw.data)
         IN IF initRaw.err # NoErr
              THEN [rec |-> Nil, err |-> initRaw.err, panic |-> FALSE]
            ELSE IF execRaw.err # NoErr
              THEN [rec |-> Nil, err |-> execRaw.err, panic |-> FALSE]
            ELSE IF initTime.err # NoErr
              THEN [rec |-> Nil, err |-> initTime.err, panic |-> FALSE]
            ELSE IF execTime.err # NoErr
              THEN [rec |-> Nil, err |-> execTime.err, panic |-> FALSE]
            ELSE IF execTime.d < initTime.d
              THEN [rec |-> Nil, err |-> <<"EFI loader exec time < init time">>,
                    panic |-> FALSE]
            ELSE [rec |-> BootTimeRecordWithEFIVariables(
                            initTime.d, execTime.d - initTime.d),
                  err |-> NoErr, panic |-> FALSE]

-----------------------------------------------------------------------------
(* acpi/acpi.go: the ACPI FPDT source *)

tableHeaderSize == 36
pathDevMem == "/dev/mem"
pathFPDTBootDir == "/sys/firmware/acpi/fpdt/boot/"
pathFPDTTableFile == "/sys/firmware/acpi/tables/FPDT"

\* filepath.Join(pathFPDTBootDir, attribute)
AttributePath(attribute) == <<pathFPDTBootDir, attribute>>

BootTimeRecordACPI(firmware, loader) == [Firmware |-> firmware, Loader |-> loader]

\* n zero bytes
Zeros(n) == [i \in 1..n |-> 0]

\* binary.LittleEndian on the bytes at (1-based) position i.  The model's
\* tables keep the upper bytes zero, so the values stay small.
Uint32LE(data, i) ==
  data[i] + 256 * data[i + 1] + 65536 * data[i + 2] + 16777216 * data[i + 3]

Uint64LE(data, i) ==
  IF Uint32LE(data, i + 4) = 0 THEN Uint32LE(data, i)
  ELSE Uint32LE(data, i) + 65536 * 65536 * Uint32LE(data, i + 4)

IsSpace(u) == u \in {9, 10, 11, 12, 13, 32}

\* strings.TrimSpace on code units
RECURSIVE TrimSpace(_)
TrimSpace(units) ==
  IF units = <<>> THEN <<>>
  ELSE IF IsSpace(Head(units)) THEN TrimSpace(Tail(units))
  ELSE IF IsSpace(units[Len(units)])
    THEN TrimSpace(SubSeq(units, 1, Len(units) - 1))
  ELSE units

\* strconv.ParseUint(s, 10, 64): one or more decimal digits, no sign
ParseUint(units) ==
  IF units = <<>> \/ \E i \in DOMAIN units : ~IsDigit(units[i])
    THEN [ok |-> FALSE, v |-> 0]
    ELSE [ok |-> TRUE, v |-> DigitsValue(units, 0)]

\* f: [ok, text]: whether the attribute file can be read, and its content
readParsedSysfsAttribute(f) ==
  IF ~f.ok THEN [d |-> 0, err |-> <<"reading file", "open">>]
  ELSE LET d == ParseUint(TrimSpace(f.text))
       IN IF ~d.ok THEN [d |-> 0, err |-> <<"parsing uint", "invalid syntax">>]
          ELSE [d |-> d.v, err |-> NoErr]

\* sys: [launch, exit, table, mem]: the two sysfs attribute files, the FPDT
\* table file and physical memory.  reads: the files opened, in order.
retrieveBootTimeWithSysfs(sys) ==
  LET launchNs == readParsedSysfsAttribute(sys.launch)
      exitNs == readParsedSysfsAttribute(sys.exit)
  IN IF launchNs.err # NoErr
       THEN [rec |-> Nil,
             err |-> Wrap("reading attribute bootloader_launch_ns", launchNs.err),
             panic |-> FALSE,
             reads |-> <<AttributePath("bootloader_launch_ns")>>]
     ELSE IF exitNs.err # NoErr
       THEN [rec |-> Nil,
             err |-> Wrap("reading attribute exitbootservice_end_ns", exitNs.err),
             panic |-> FALSE,
             reads |-> <<AttributePath("bootloader_launch_ns"),
                         AttributePath("exitbootservice_end_ns")>>]
     ELSE [rec |-> BootTimeRecordACPI(launchNs.d, exitNs.d - launchNs.d),
           err |-> NoErr, panic |-> FALSE,
           reads |-> <<AttributePath("bootloader_launch_ns"),
                       AttributePath("exitbootservice_end_ns")>>]

\* the offset in buf that buf.ReadAt(headerBytes, 0) reads the sub-record
\* header of a step from, when buf.Read has consumed pos bytes
HeaderOffset(pos) == 0

\* the loop over the sub-records of the table file: buf is the file after
\* its header, pos the number of bytes buf.Read has consumed.  steps lists
\* the iterations that read a header: the read position they began at, the
\* offset the header was read from, the length it declared and the bytes
\* buf.Read consumed.
RECURSIVE PointerWalk(_, _, _)
PointerWalk(buf, pos, steps) ==
  IF Len(buf) - pos <= 0
    THEN [found |-> FALSE, address |-> 0, steps |-> steps]
  ELSE IF Len(buf) - HeaderOffset(pos) < 4
    THEN [found |-> FALSE, address |-> 0, steps |-> steps]
  ELSE LET type == Uint16LE(buf, HeaderOffset(pos) + 1)
           length == buf[HeaderOffset(pos) + 3]
           n == IF length < Len(buf) - pos THEN length ELSE Len(buf) - pos
           recordData == SubSeq(buf, pos + 1, pos + n) \o Zeros(length - n)
           step == [pos |-> pos, header |-> HeaderOffset(pos),
                    length |-> length, read |-> IF length = 0 THEN 0 ELSE n]
       IN IF length = 0
            THEN [found |-> FALSE, address |-> 0, steps |-> Append(steps, step)]
          ELSE IF type = 0 /\ Len(recordData) >= 16
            THEN [found |-> TRUE, address |-> Uint64LE(recordData, 9),
                  steps |-> Append(steps, step)]
          ELSE PointerWalk(buf, pos + n, Append(steps, step))

\* mem.ReadAt(b, off) for a buffer of n bytes.  mem: [ok, base, bytes]:
\* whether /dev/mem can be opened, and the readable memory: bytes from the
\* address base on
MemReadAt(mem, n, off) ==
  IF off < 0 THEN [ok |-> FALSE, data |-> <<>>]
  ELSE IF n = 0 THEN [ok |-> TRUE, data |-> <<>>]
  ELSE IF off < mem.base \/ off + n > mem.base + Len(mem.bytes)
    THEN [ok |-> FALSE, data |-> <<>>]
  ELSE [ok |-> TRUE,
        data |-> SubSeq(mem.bytes, off - mem.base + 1, off - mem.base + n)]

\* A uint64 timer field of the Type-2 record is kept as its 8 bytes, least
\* significant first, so that the full width takes part in the arithmetic.
U64At(data, i) == SubSeq(data, i, i + 7)

\* x > 0 for a uint64
U64Positive(x) == \E i \in 1..8 : x[i] # 0

\* x > y for uint64s, decided from byte i down
RECURSIVE U64GreaterFrom(_, _, _)
U64GreaterFrom(x, y, i) ==
  IF i = 0 THEN FALSE
  ELSE IF x[i] # y[i] THEN x[i] > y[i]
  ELSE U64GreaterFrom(x, y, i - 1)

U64Greater(x, y) == U64GreaterFrom(x, y, 8)

\* x - y for uint64s, modulo 2^64: the bytes from i on, with the borrow
RECURSIVE U64SubFrom(_, _, _, _)
U64SubFrom(x, y, i, borrow) ==
  IF i > 8 THEN <<>>
  ELSE LET d == x[i] - y[i] - borrow
       IN <<(d + 256) % 256>>
          \o U64SubFrom(x, y, i + 1, IF d < 0 THEN 1 ELSE 0)

U64Sub(x, y) == U64SubFrom(x, y, 1, 0)

\* the number the bytes from i on stand for
RECURSIVE BytesValue(_, _)
BytesValue(x, i) ==
  IF i > Len(x) THEN 0
  ELSE IF \A j \in i..Len(x) : x[j] = 0 THEN 0
  ELSE x[i] + 256 * BytesValue(x, i + 1)

\* time.Duration(x) for a uint64: the int64 with the same bits, negative
\* from 2^63 on
DurationOfUint64(x) ==
  IF x[8] < 128 THEN BytesValue(x, 1)
  ELSE -(BytesValue([i \in 1..8 |-> 255 - x[i]], 1) + 1)

\* the result made from the Type-2 record at offset
BootRecordResult(tableData, offset) ==
  LET ResetEnd == U64At(tableData, offset + 9)
      OSLoaderLoadImageStart == U64At(tableData, offset + 17)
      ExitBootServicesExit == U64At(tableData, offset + 41)
  IN BootTimeRecordACPI(
       IF U64Positive(OSLoaderLoadImageStart)
         THEN DurationOfUint64(OSLoaderLoadImageStart)
       ELSE IF U64Positive(ResetEnd) THEN DurationOfUint64(ResetEnd) ELSE 0,
       IF U64Positive(ExitBootServicesExit) /\ U64Positive(OSLoaderLoadImageStart)
          /\ U64Greater(ExitBootServicesExit, OSLoaderLoadImageStart)
         THEN DurationOfUint64(U64Sub(ExitBootServicesExit, OSLoaderLoadImageStart))
         ELSE 0)

\* the loop "for offset < int(hdr.Length)" over the table read from memory
RECURSIVE RecordWalk(_, _)
RecordWalk(tableData, offset) ==
  IF offset >= Len(tableData) THEN [rec |-> Nil, err |-> NoErr]
  ELSE IF Len(tableData) - offset < 4 THEN [rec |-> Nil, err |-> NoErr]
  ELSE LET type == Uint16LE(tableData, offset + 1)
           length == tableData[offset + 3]
       IN IF length = 0 THEN [rec |-> Nil, err |-> NoErr]
          ELSE IF type = 2
            THEN IF Len(tableData) - offset < 48
                   THEN [rec |-> Nil,
                         err |-> <<"parsing boot record", "unexpected EOF">>]
                   ELSE [rec |-> BootRecordResult(tableData, offset),
                         err |-> NoErr]
          ELSE RecordWalk(tableData, offset + length)

readFPDTFromMemory(mem, physAddr) ==
  LET headerBuf == MemReadAt(mem, tableHeaderSize, physAddr)
      Length == Uint32LE(headerBuf.data, 5)
      tableData == MemReadAt(mem, Length, physAddr)
      walk == RecordWalk(tableData.data, tableHeaderSize)
  IN IF ~mem.ok THEN [rec |-> Nil, err |-> <<"opening /dev/mem", "open">>]
     ELSE IF ~headerBuf.ok
       THEN [rec |-> Nil, err |-> <<"reading ACPI table header", "EOF">>]
     ELSE IF SubSeq(headerBuf.data, 1, 4) # <<70, 80, 68, 84>>
       THEN [rec |-> Nil, err |-> <<"table signature memory is not FPDT">>]
     ELSE IF ~tableData.ok
       THEN [rec |-> Nil, err |-> <<"reading full table", "EOF">>]
     ELSE IF walk.err # NoErr THEN walk
     ELSE IF walk.rec = Nil
       THEN [rec |-> Nil, err |-> <<"no boot performance record found in FPDT">>]
     ELSE walk

retrieveBootTimeFromTablePointer(sys) ==
  LET data == sys.table.data
      fpdt == PointerWalk(SubSeq(data, tableHeaderSize + 1, Len(data)), 0, <<>>)
      record == readFPDTFromMemory(sys.mem, fpdt.address)
  IN IF ~sys.table.ok
       THEN [rec |-> Nil, err |-> <<"read FPDT table file", "open">>,
             panic |-> FALSE, reads |-> <<pathFPDTTableFile>>, steps |-> <<>>]
     ELSE IF Len(data) < tableHeaderSize
       THEN [rec |-> Nil, err |-> <<"FPDT table have no header">>,
             panic |-> FALSE, reads |-> <<pathFPDTTableFile>>, steps |-> <<>>]
     ELSE IF ~fpdt.found
       THEN [rec |-> Nil, err |-> <<"FPDT pointer not found in FPDT table">>,
             panic |-> FALSE, reads |-> <<pathFPDTTableFile>>,
             steps |-> fpdt.steps]
     ELSE IF record.err # NoErr
       THEN [rec |-> Nil,
             err |-> Wrap("reading FPDT table from address", record.err),
             panic |-> FALSE, reads |-> <<pathFPDTTableFile, pathDevMem>>,
             steps |-> fpdt.steps]
     ELSE [rec |-> record.rec, err |-> NoErr, panic |-> FALSE,
           reads |-> <<pathFPDTTableFile, pathDevMem>>, steps |-> fpdt.steps]

\* variant: the raw table is tried first, the sysfs attributes after it
RetrieveBootTimeRecordTableFirst(sys) ==
  LET table == retrieveBootTimeFromTablePointer(sys)
      sysfs == retrieveBootTimeWithSysfs(sys)
  IN IF table.err = NoErr THEN table
     ELSE [sysfs EXCEPT !.reads = table.reads \o sysfs.reads]

RetrieveBootTimeRecord(sys) ==
  LET times == retrieveBootTimeWithSysfs(sys)
      table == retrieveBootTimeFromTablePointer(sys)
  IN IF times.err = NoErr THEN times
     ELSE [table EXCEPT !.reads = times.reads \o table.reads]

-----------------------------------------------------------------------------
(* model/model.go: records, the persisted line format, the accumulator *)

\* A BootTimeRecord's Values: a map stage -> (method -> duration), here a
\* function on the stages present whose values are functions on the methods
\* present.

\* the populated (stage, method) cells of a Values map
Cells(values) ==
  UNION {{<<s, m>> : m \in DOMAIN values[s]} : s \in DOMAIN values}

\* encoding/json writes the keys of a map in sorted order
SortedStageKeys ==
  <<BootTimeStageFirmware, BootTimeStageInitrd, BootTimeStageKernel,
    BootTimeStageLoader, BootTimeStageTotal, BootTimeStageUserspace>>

SortedMethodKeys ==
  <<RetrievalMethodACPIFPDT, RetrievalMethodEFIVar,
    RetrievalMethodSystemdAnalyze, RetrievalMethodSystemdDBUS>>

\* variant: zero durations are left out (omitempty)
MarshalMethodsOmitZero(methods) ==
  LET keys == SelectSeq(SortedMethodKeys,
                        LAMBDA k : k \in DOMAIN methods /\ methods[k] # 0)
  IN [i \in 1..Len(keys) |-> [key |-> keys[i], val |-> methods[keys[i]]]]

\* the JSON object of a map method -> duration: its members in key order
MarshalMethods(methods) ==
  LET keys == SelectSeq(SortedMethodKeys, LAMBDA k : k \in DOMAIN methods)
  IN [i \in 1..Len(keys) |-> [key |-> keys[i], val |-> methods[keys[i]]]]

\* json.NewEncoder(file).Encode(values): one line holding the JSON object of
\* the map stage -> method -> duration, durations as integers
Marshal(values) ==
  LET keys == SelectSeq(SortedStageKeys, LAMBDA k : k \in DOMAIN values)
  IN [kind |-> "object",
      members |-> [i \in 1..Len(keys) |->
                     [key |-> keys[i], val |-> MarshalMethods(values[keys[i]])]]]

\* json.Unmarshal of an object's members into a Go map: a later member
\* replaces an earlier one with the same key
RECURSIVE MembersToMap(_)
MembersToMap(members) ==
  IF members = <<>> THEN EmptyMap
  ELSE LET n == Len(members)
           front == MembersToMap(SubSeq(members, 1, n - 1))
           last == members[n]
       IN [k \in DOMAIN front \cup {last.key} |->
             IF k = last.key THEN last.val ELSE front[k]]

\* line: [kind, members]; a line that is not a JSON object of objects of
\* integers (kind # "object") makes json.Unmarshal fail
UnmarshalBootTimeRecord(line) ==
  IF line.kind # "object"
    THEN [values |-> Nil, err |-> <<"unmarshalling from json", "invalid">>]
    ELSE LET raw == MembersToMap(line.members)
         IN [values |-> [s \in DOMAIN raw |-> MembersToMap(raw[s])],
             err |-> NoErr]

\* the scanner loop from line i on; records holds the records read so far
RECURSIVE ScanRecords(_, _, _)
ScanRecords(lines, i, records) ==
  IF i > Len(lines) THEN [records |-> records, err |-> NoErr]
  ELSE LET rec == UnmarshalBootTimeRecord(lines[i])
       IN IF rec.err # NoErr
            THEN [records |-> <<>>,
                  err |-> Wrap("unmarshalling boot time record from line", rec.err)]
            ELSE ScanRecords(lines, i + 1, Append(records, rec.values))

\* variant: a line that is no record is skipped
RECURSIVE ScanSkipping(_, _, _)
ScanSkipping(lines, i, records) ==
  IF i > Len(lines) THEN [records |-> records, err |-> NoErr]
  ELSE LET rec == UnmarshalBootTimeRecord(lines[i])
       IN ScanSkipping(lines, i + 1,
                       IF rec.err # NoErr THEN records ELSE Append(records, rec.values))

BootTimeRecordsSkippingBadLines(lines) == ScanSkipping(lines, 1, <<>>)

BootTimeRecordsFromFile(lines) == ScanRecords(lines, 1, <<>>)

NewBootTimeAccumulator == [sum |-> EmptyMap, count |-> EmptyMap]

\* a.sum[stage][method] += d for every method of the record's stage
MergeSum(old, methods) ==
  [m \in DOMAIN old \cup DOMAIN methods |->
     (IF m \in DOMAIN old THEN old[m] ELSE 0)
       + (IF m \in DOMAIN methods THEN methods[m] ELSE 0)]

\* variant: every cell of the stage counts the record
MergeCountEveryCell(old, methods) ==
  [m \in DOMAIN old \cup DOMAIN methods |->
     (IF m \in DOMAIN old THEN old[m] ELSE 0) + 1]

\* a.count[stage][method]++ for every method of the record's stage
MergeCount(old, methods) ==
  [m \in DOMAIN old \cup DOMAIN methods |->
     (IF m \in DOMAIN old THEN old[m] ELSE 0)
       + (IF m \in DOMAIN methods THEN 1 ELSE 0)]

\* variant: the count map of a stage is made only when a method is counted
AddLazyCount(a, r) ==
  [sum |-> [s \in DOMAIN a.sum \cup DOMAIN r |->
              IF s \in DOMAIN r
                THEN MergeSum(IF s \in DOMAIN a.sum THEN a.sum[s] ELSE EmptyMap, r[s])
                ELSE a.sum[s]],
   count |-> [s \in DOMAIN a.count \cup {t \in DOMAIN r : DOMAIN r[t] # {}} |->
                IF s \in DOMAIN r
                  THEN MergeCount(IF s \in DOMAIN a.count THEN a.count[s] ELSE EmptyMap, r[s])
                  ELSE a.count[s]]]

\* (a *BootTimeAccumulator) Add(r): r is the record's Values.  The maps of a
\* stage are made together, when a.sum has none for it.
Add(a, r) ==
  [sum |-> [s \in DOMAIN a.sum \cup DOMAIN r |->
              IF s \in DOMAIN r
                THEN MergeSum(IF s \in DOMAIN a.sum THEN a.sum[s] ELSE EmptyMap, r[s])
                ELSE a.sum[s]],
   count |-> [s \in DOMAIN a.count \cup DOMAIN r |->
                IF s \in DOMAIN r
                  THEN MergeCount(IF s \in DOMAIN a.sum THEN a.count[s] ELSE EmptyMap, r[s])
                  ELSE a.count[s]]]

\* (a *BootTimeAccumulator) Average(): the Values of the returned record
Average(a) ==
  [s \in DOMAIN a.sum |->
     [m \in DOMAIN a.sum[s] |-> GoDiv(a.sum[s][m], a.count[s][m])]]

\* variant: Average() hands its sums out and starts the accumulator anew
AccumulatorAfterAverageReset(a) == NewBootTimeAccumulator

\* the accumulator after a.Average(): the method assigns neither a.sum nor
\* a.count, it only ranges over them
AccumulatorAfterAverage(a) == a

\* the loop "for _, r := range records { btra.Add(r) }"
RECURSIVE AddAll(_, _)
AddAll(a, records) ==
  IF records = <<>> THEN a ELSE AddAll(Add(a, Head(records)), Tail(records))

-----------------------------------------------------------------------------
(* exec/exec.go: RunAnalysis and PrintRecordsAverage *)

\* the goroutines RunAnalysis starts with g.Go, by the variable each assigns
Tasks == {"recordSystemdAnalyze", "recordSystemdDbus", "recordEFIVars"}

\* the context each goroutine wraps its error with
SourceName(t) ==
  CASE t = "recordSystemdAnalyze" -> "retrieving boot time with systemd-analyze"
    [] t = "recordSystemdDbus" -> "retrieving boot time with dbus property"
    [] t = "recordEFIVars" -> "retrieving boot time with efi vars"

\* the retrieval method the merge files each goroutine's record under
MethodOf(t) ==
  CASE t = "recordSystemdAnalyze" -> RetrievalMethodSystemdAnalyze
    [] t = "recordSystemdDbus" -> RetrievalMethodSystemdDBUS
    [] t = "recordEFIVars" -> RetrievalMethodEFIVar

\* variant: every goroutine assigns the variable declared first
ResultVariableShared(t) == "recordSystemdAnalyze"

\* the variable of RunAnalysis the goroutine t assigns the decoder's record to
ResultVariable(t) == t

\* a result variable before its goroutine has returned
TaskIdle == [done |-> FALSE, input |-> <<>>, rec |-> Nil, err |-> NoErr]

\* variant: the group's error is assigned by every goroutine that returns
ErrOverwrite(groupErr, err) == err

\* variant: the group keeps the error of the goroutine that failed last
ErrLast(groupErr, err) == IF err # NoErr THEN err ELSE groupErr

\* variant: the group keeps no error of its goroutines
ErrDiscarded(groupErr, err) == groupErr

\* errgroup: g.errOnce.Do(func() { g.err = err }) for a goroutine that
\* returned err: only the first non-nil error is kept
ErrOnce(groupErr, err) ==
  IF err # NoErr /\ groupErr = NoErr THEN err ELSE groupErr

\* errgroup: g.Wait() blocks until every goroutine started with g.Go returned
WaitReturns(ts) == \A t \in Tasks : ts[t].done

\* variant: the kernel row files the two systemd records under each other's
\* method
MergeValuesKernelSwapped(ts) ==
  LET a == ts["recordSystemdAnalyze"].rec
      d == ts["recordSystemdDbus"].rec
      e == ts["recordEFIVars"].rec
      systemd(fa, fd) ==
        [m \in {RetrievalMethodSystemdAnalyze, RetrievalMethodSystemdDBUS} |->
           IF m = RetrievalMethodSystemdAnalyze THEN fa ELSE fd]
      withEFI(fe, fa, fd) ==
        [m \in {RetrievalMethodEFIVar, RetrievalMethodSystemdAnalyze,
                RetrievalMethodSystemdDBUS} |->
           IF m = RetrievalMethodEFIVar THEN fe
           ELSE IF m = RetrievalMethodSystemdAnalyze THEN fa ELSE fd]
  IN [s \in Range(allBootTimeStages) |->
        CASE s = BootTimeStageFirmware -> withEFI(e.Firmware, a.Firmware, d.Firmware)
          [] s = BootTimeStageLoader -> withEFI(e.Loader, a.Loader, d.Loader)
          [] s = BootTimeStageKernel -> systemd(d.Kernel, a.Kernel)
          [] s = BootTimeStageInitrd -> systemd(a.Initrd, d.Initrd)
          [] s = BootTimeStageUserspace -> systemd(a.Userspace, d.Userspace)
          [] s = BootTimeStageTotal -> systemd(a.Total, d.Total)]

\* the map literal "values" of RunAnalysis: every stage gets a cell for each
\* source listed under it, holding that source's struct field
MergeValues(ts) ==
  LET a == ts["recordSystemdAnalyze"].rec
      d == ts["recordSystemdDbus"].rec
      e == ts["recordEFIVars"].rec
      systemd(fa, fd) ==
        [m \in {RetrievalMethodSystemdAnalyze, RetrievalMethodSystemdDBUS} |->
           IF m = RetrievalMethodSystemdAnalyze THEN fa ELSE fd]
      withEFI(fe, fa, fd) ==
        [m \in {RetrievalMethodEFIVar, RetrievalMethodSystemdAnalyze,
                RetrievalMethodSystemdDBUS} |->
           IF m = RetrievalMethodEFIVar THEN fe
           ELSE IF m = RetrievalMethodSystemdAnalyze THEN fa ELSE fd]
  IN [s \in Range(allBootTimeStages) |->
        CASE s = BootTimeStageFirmware -> withEFI(e.Firmware, a.Firmware, d.Firmware)
          [] s = BootTimeStageLoader -> withEFI(e.Loader, a.Loader, d.Loader)
          [] s = BootTimeStageKernel -> systemd(a.Kernel, d.Kernel)
          [] s = BootTimeStageInitrd -> systemd(a.Initrd, d.Initrd)
          [] s = BootTimeStageUserspace -> systemd(a.Userspace, d.Userspace)
          [] s = BootTimeStageTotal -> systemd(a.Total, d.Total)]

\* variant: the file is opened with O_TRUNC in place of O_APPEND
WriteTruncating(f, line) == [exists |-> TRUE, lines |-> <<line>>]

\* os.OpenFile(O_CREATE|O_APPEND|O_WRONLY), one Write of the encoded line,
\* Close: the line goes after the content the file has
WriteAppending(f, line) == [exists |-> TRUE, lines |-> Append(f.lines, line)]

\* os.OpenFile with O_CREATE when nothing is written afterwards
CreateIfMissing(f) == [exists |-> TRUE, lines |-> f.lines]

-----------------------------------------------------------------------------
(* What the sources deliver: the inputs the calls are run on *)

\* stdout and exit status of "systemd-analyze time"
AnalyzeCommands ==
  { [ok |-> TRUE,
     out |-> << <<"Startup", "finished", "in", "3us", "(firmware)", "+", "1us",
                  "(loader)", "+", "2us", "(kernel)", "+", "1us", "(initrd)",
                  "+", "2us", "(userspace)", "=", "9us">>,
                <<"graphical.target", "reached">> >>],
    [ok |-> TRUE,
     out |-> << <<"Startup", "finished", "in", "2us", "(kernel)", "+", "3us",
                  "(userspace)", "=", "3ns">> >>],
    [ok |-> TRUE,
     out |-> << <<"Startup", "finished", "in", "potatoes", "(kernel)", "+",
                  "2us", "(userspace)", "=", "3us">> >>],
    [ok |-> TRUE, out |-> << <<"(kernel)", "2us">> >>],
    [ok |-> TRUE, out |-> <<>>],
    [ok |-> FALSE, out |-> <<>>] }

\* the duration tokens of the reports, and a token that is no duration
DurationWords == {"1us", "2us"}

AnalyzeWords == DurationWords \cup {"potatoes"}

\* the first line of a report in the shape systemd-analyze prints it
CanonicalLine(d1, d2, d3, d4, d5, d6) ==
  <<"Startup", "finished", "in", d1, "(firmware)", "+", d2, "(loader)", "+",
    d3, "(kernel)", "+", d4, "(initrd)", "+", d5, "(userspace)", "=", d6>>

\* what follows the first line: nothing, the target line, lines with labels
FurtherLines ==
  { <<>>,
    << <<"graphical.target", "reached", "after", "2us", "in", "userspace.">> >>,
    << <<"potatoes", "(kernel)", "=">>, <<>> >> }

\* texts that do not have the shape of a report
OddOutputs ==
  { <<>>,
    << <<>> >>,
    << <<"hello">> >>,
    << <<"Startup", "finished", "in", "2us", "(kernel)", "+", "3us",
         "(userspace)", "=", "3ns">> >>,
    << <<"(kernel)", "2us">> >>,
    << <<"2us", "(kernel)", "=">> >>,
    << <<"1us", "(kernel)=", "2us">> >>,
    << <<"potatoes", "(loader)", "(kernel)">> >> }

\* the texts the parsers are run on
AnalyzeOutputs ==
  { <<CanonicalLine(d1, d2, d3, d4, d5, d6)>> \o more :
      d1 \in AnalyzeWords, d2 \in AnalyzeWords, d3 \in AnalyzeWords,
      d4 \in AnalyzeWords, d5 \in AnalyzeWords, d6 \in AnalyzeWords,
      more \in FurtherLines }
  \cup OddOutputs

\* exit status and stdout of "systemd-analyze time"
AnalyzeRuns ==
  {[ok |-> TRUE, out |-> o] : o \in AnalyzeOutputs}
  \cup {[ok |-> FALSE, out |-> <<>>]}

\* a bus on which the manager exposes all five properties
Bus(firmwareTs, loaderTs, initrdTs, userspaceTs, finishTs) ==
  [connOk |-> TRUE,
   props |-> [n \in DbusProperties |->
     [ok |-> TRUE,
      val |-> CASE n = "FirmwareTimestampMonotonic" -> firmwareTs
                [] n = "LoaderTimestampMonotonic" -> loaderTs
                [] n = "InitRDTimestampMonotonic" -> initrdTs
                [] n = "UserspaceTimestampMonotonic" -> userspaceTs
                [] n = "FinishTimestampMonotonic" -> finishTs]]]

\* the system bus and the replies to the five Properties.Get calls
DbusReplies ==
  { Bus(5, 2, 1, 3, 7),
    [Bus(0, 0, 0, 2, 4) EXCEPT !.props["InitRDTimestampMonotonic"].ok = FALSE],
    Bus(5, 2, 1, 3, 0),
    [connOk |-> FALSE, props |-> [n \in DbusProperties |-> [ok |-> FALSE, val |-> 0]]] }

\* the UTF-16LE bytes of a string of code units
RECURSIVE Utf16LE(_)
Utf16LE(units) ==
  IF units = <<>> THEN <<>>
  ELSE <<Head(units) % 256, Head(units) \div 256>> \o Utf16LE(Tail(units))

\* an efivars file: 4 attribute bytes, the text, a NUL unit
EFIFile(units) == [ok |-> TRUE, data |-> <<7, 0, 0, 0>> \o Utf16LE(units) \o <<0, 0>>]

InitName == <<"LoaderTimeInitUSec-", "4a67b082">>
ExecName == <<"LoaderTimeExecUSec-", "4a67b082">>
OtherName == <<"Boot0000-", "8be4df61">>

\* the efivars directory: its listing in name order and its files
EFIDirs ==
  { [dirOk |-> TRUE, entries |-> <<OtherName, ExecName, InitName>>,
     files |-> [n \in {OtherName, ExecName, InitName} |->
                  IF n = InitName THEN EFIFile(<<49>>)
                  ELSE IF n = ExecName THEN EFIFile(<<51>>)
                  ELSE EFIFile(<<>>)]],
    [dirOk |-> TRUE, entries |-> <<ExecName, InitName>>,
     files |-> [n \in {ExecName, InitName} |->
                  IF n = InitName THEN EFIFile(<<50>>) ELSE EFIFile(<<49>>)]],
    [dirOk |-> TRUE, entries |-> <<OtherName, InitName>>,
     files |-> [n \in {OtherName, InitName} |-> EFIFile(<<49>>)]],
    [dirOk |-> FALSE, entries |-> <<>>, files |-> EmptyMap] }

\* the reply to Properties.Get for a property the manager does not expose:
\* an error, or a value that is no uint64 (its val is never stored)
NotExposed == [ok |-> FALSE, val |-> 1]

\* the replies to one Properties.Get call
PropertyReplies == {NotExposed} \cup {[ok |-> TRUE, val |-> v] : v \in 0..MaxTs}

\* the system bus with every combination of replies, and no system bus
DbusBuses ==
  {[connOk |-> TRUE, props |-> ps] : ps \in [DbusProperties -> PropertyReplies]}
  \cup {[connOk |-> FALSE, props |-> [n \in DbusProperties |-> NotExposed]]}

\* the decimal digits of a natural number as code units
RECURSIVE Digits(_)
Digits(n) ==
  IF n < 10 THEN <<48 + n>> ELSE Digits(n \div 10) \o <<48 + (n % 10)>>

\* what an EFI timing variable holds: its text, and the number the text
\* stands for when it is a decimal number with an optional sign
EFITexts ==
  {[units |-> Digits(n), valid |-> TRUE, usec |-> n] : n \in (0..MaxUsec) \cup {100, 250}}
  \cup {[units |-> <<45>> \o Digits(n), valid |-> TRUE, usec |-> -n] : n \in 1..MaxUsec}
  \cup {[units |-> <<43>> \o Digits(2), valid |-> TRUE, usec |-> 2],
        [units |-> <<>>, valid |-> FALSE, usec |-> 0],
        [units |-> <<49, 120>>, valid |-> FALSE, usec |-> 0]}

\* an efivars directory with the two timing variables holding the given texts
EFIVars(initText, execText) ==
  [dirOk |-> TRUE, entries |-> <<OtherName, ExecName, InitName>>,
   files |-> [n \in {OtherName, ExecName, InitName} |->
                IF n = InitName THEN EFIFile(initText.units)
                ELSE IF n = ExecName THEN EFIFile(execText.units)
                ELSE EFIFile(<<>>)]]

\* the directories the decoder is run on, each with the texts it was made of
EFIRuns ==
  {[efi |-> EFIVars(i, e), init |-> i, exec |-> e] : i \in EFITexts, e \in EFITexts}

ExecNameLater == <<"LoaderTimeExecUSec-", "9f00aa11">>
InitNameLater == <<"LoaderTimeInitUSec-", "9f00aa11">>

\* listings in which two entries share a prefix, in the name order of
\* os.ReadDir, next to the listings of EFIDirs
EFIListings ==
  EFIDirs \cup
  { [dirOk |-> TRUE, entries |-> <<ExecName, ExecNameLater, InitName>>,
     files |-> [n \in {ExecName, ExecNameLater, InitName} |->
                  IF n = ExecName THEN EFIFile(<<51>>)
                  ELSE IF n = ExecNameLater THEN EFIFile(<<50>>)
                  ELSE EFIFile(<<49>>)]],
    [dirOk |-> TRUE, entries |-> <<ExecName, InitName, InitNameLater>>,
     files |-> [n \in {ExecName, InitName, InitNameLater} |->
                  IF n = ExecName THEN EFIFile(<<51>>)
                  ELSE IF n = InitName THEN EFIFile(<<49>>)
                  ELSE EFIFile(<<50>>)]],
    [dirOk |-> TRUE, entries |-> <<OtherName>>,
     files |-> [n \in {OtherName} |-> EFIFile(<<49>>)]] }

\* the little-endian bytes of a number
LE16(n) == <<n % 256, n \div 256>>

LE32(n) == LE16(n % 65536) \o LE16(n \div 65536)

LE64(n) == LE32(n) \o Zeros(4)

\* what a sysfs attribute file is: missing, no number, or a number and a
\* newline; valid and ns say what the text stands for
SysfsAttributes ==
  {[ok |-> FALSE, text |-> <<>>, valid |-> FALSE, ns |-> 0],
   [ok |-> TRUE, text |-> <<45, 49, 10>>, valid |-> FALSE, ns |-> 0]}
  \cup {[ok |-> TRUE, text |-> Digits(n) \o <<10>>, valid |-> TRUE, ns |-> n] :
          n \in 0..MaxNs}

\* an ACPI table: the 36-byte header with signature and length, then records
ACPITable(records) ==
  <<70, 80, 68, 84>> \o LE32(tableHeaderSize + Len(records)) \o Zeros(28)
  \o records

\* FPDT sub-records: the Type-0 pointer record, the Type-2 boot record, and a
\* record of another type
PointerRecord(address) == LE16(0) \o <<16, 1>> \o Zeros(4) \o LE64(address)

BootRecordOfBytes(resetEnd, loadImageStart, exitBootServicesExit) ==
  LE16(2) \o <<48, 2>> \o Zeros(4) \o resetEnd \o loadImageStart
  \o LE64(0) \o LE64(0) \o exitBootServicesExit

BootRecord(resetEnd, loadImageStart, exitBootServicesExit) ==
  BootRecordOfBytes(LE64(resetEnd), LE64(loadImageStart),
                    LE64(exitBootServicesExit))

\* the largest uint64, 2^64 - 1
MaxUint64Bytes == [i \in 1..8 |-> 255]

\* a sub-record header that declares the length 0
ZeroLengthRecord == LE16(1) \o <<0, 1>>

\* physical memory holding an FPDT table with the given sub-records
Memory(records) == [ok |-> TRUE, base |-> 4096, bytes |-> ACPITable(records)]

OtherRecord(type, length) == LE16(type) \o <<length, 1>> \o Zeros(length - 4)

\* the FPDT table file and physical memory
RawTables ==
  { [table |-> [ok |-> FALSE, data |-> <<>>],
     mem |-> [ok |-> FALSE, base |-> 0, bytes |-> <<>>]],
    [table |-> [ok |-> TRUE, data |-> ACPITable(PointerRecord(4096))],
     mem |-> [ok |-> TRUE, base |-> 4096, bytes |-> ACPITable(BootRecord(1, 5, 9))]],
    [table |-> [ok |-> TRUE, data |-> ACPITable(OtherRecord(1, 8))],
     mem |-> [ok |-> TRUE, base |-> 4096, bytes |-> ACPITable(BootRecord(1, 5, 9))]],
    [table |-> [ok |-> TRUE, data |-> ACPITable(PointerRecord(4096))],
     mem |-> [ok |-> FALSE, base |-> 0, bytes |-> <<>>]],
    [table |-> [ok |-> TRUE, data |-> ACPITable(PointerRecord(4096))],
     mem |-> [ok |-> TRUE, base |-> 4096, bytes |-> ACPITable(OtherRecord(1, 8))]],
    [table |-> [ok |-> TRUE, data |-> ACPITable(PointerRecord(4096))],
     mem |-> Memory(OtherRecord(1, 8) \o BootRecord(2, 0, 0))],
    [table |-> [ok |-> TRUE, data |-> ACPITable(PointerRecord(4096))],
     mem |-> Memory(BootRecord(1, 0, 9))],
    [table |-> [ok |-> TRUE, data |-> ACPITable(PointerRecord(4096))],
     mem |-> Memory(BootRecord(1, 9, 5))],
    [table |-> [ok |-> TRUE, data |-> ACPITable(PointerRecord(4096))],
     mem |-> Memory(BootRecordOfBytes(LE64(1), LE64(1), MaxUint64Bytes))],
    [table |-> [ok |-> TRUE, data |-> ACPITable(PointerRecord(4096))],
     mem |-> Memory(ZeroLengthRecord \o BootRecord(1, 5, 9))],
    [table |-> [ok |-> TRUE,
                data |-> ACPITable(OtherRecord(1, 8) \o PointerRecord(4096))],
     mem |-> Memory(BootRecord(1, 5, 9))],
    [table |-> [ok |-> TRUE,
                data |-> ACPITable(OtherRecord(1, 8) \o ZeroLengthRecord
                                   \o PointerRecord(4096))],
     mem |-> Memory(BootRecord(1, 5, 9))] }

\* the machines the ACPI decoder is run on
ACPISystems ==
  {[launch |-> l, exit |-> e, table |-> raw.table, mem |-> raw.mem] :
     l \in SysfsAttributes, e \in SysfsAttributes, raw \in RawTables}

\* a line no record can be read from
GarbageLine == [kind |-> "garbage", members |-> <<>>]

\* a line as RunAnalysis writes it, with one cell
CellLine(stage, method, d) ==
  Marshal([s \in {stage} |-> [m \in {method} |-> d]])

\* the .jsonl file before the first call: missing, empty, holding records,
\* or holding a line that is no record
InitialFiles ==
  { [exists |-> FALSE, lines |-> <<>>],
    [exists |-> TRUE, lines |-> <<>>],
    [exists |-> TRUE,
     lines |-> <<CellLine(BootTimeStageFirmware, RetrievalMethodSystemdAnalyze, 1000),
                 CellLine(BootTimeStageFirmware, RetrievalMethodSystemdAnalyze, 2000),
                 CellLine(BootTimeStageFirmware, RetrievalMethodSystemdAnalyze, 3000)>>],
    [exists |-> TRUE,
     lines |-> <<CellLine(BootTimeStageKernel, RetrievalMethodSystemdDBUS, 2000),
                 GarbageLine>>] }

-----------------------------------------------------------------------------
(* The state machine *)

NoReturn == [kind |-> "none", rec |-> Nil, err |-> NoErr]

NoAverage == [ran |-> FALSE, lines |-> <<>>, err |-> NoErr, printed |-> <<>>]

NoAverageOut == [ran |-> FALSE, after |-> 0, values |-> EmptyMap, calls |-> <<>>]

\* no decoder has been called on its own
NoCall == [fn |-> "", in |-> <<>>, out |-> <<>>]

Init ==
  /\ file \in InitialFiles
  /\ file0 = file
  /\ fileAtCall = file
  /\ pc = "idle"
  /\ tasks = [t \in Tasks |-> TaskIdle]
  /\ gerr = NoErr
  /\ order = <<>>
  /\ ret = NoReturn
  /\ okLines = <<>>
  /\ calls = 0
  /\ avg = NoAverage
  /\ acc = NewBootTimeAccumulator
  /\ added = <<>>
  /\ avgOut = NoAverageOut
  /\ dec = NoCall

accVars == <<acc, added, avgOut>>

\* A run of the program with -R: RunAnalysis up to g.Wait, the three
\* goroutines are started.  Every run is a process of its own: it starts with
\* nothing printed and nothing returned.
Start ==
  /\ pc = "idle"
  /\ calls < MaxCalls
  /\ pc' = "running"
  /\ calls' = calls + 1
  /\ tasks' = [t \in Tasks |-> TaskIdle]
  /\ gerr' = NoErr
  /\ order' = <<>>
  /\ ret' = NoReturn
  /\ fileAtCall' = file
  /\ avg' = NoAverage
  /\ UNCHANGED <<file, file0, okLines>>
  /\ UNCHANGED <<accVars, dec>>

\* the goroutine t returns with the decoder's result r on the input in: it
\* has assigned its result variable; a non-nil error is wrapped and handed to
\* the group.  A run-time panic in a goroutine ends the process.
TaskReturns(t, in, r) ==
  /\ pc = "running"
  /\ ~tasks[t].done
  /\ IF r.panic
       THEN /\ pc' = "idle"
            /\ ret' = [kind |-> "panic", rec |-> Nil, err |-> NoErr]
            /\ UNCHANGED <<tasks, gerr, order>>
       ELSE /\ tasks' = [tasks EXCEPT ![ResultVariable(t)] =
                           [done |-> TRUE, input |-> in, rec |-> r.rec, err |-> r.err]]
            /\ gerr' = ErrOnce(gerr, IF r.err # NoErr THEN Wrap(SourceName(t), r.err)
                                     ELSE NoErr)
            /\ order' = Append(order, t)
            /\ UNCHANGED <<pc, ret>>
  /\ UNCHANGED <<file, file0, fileAtCall, okLines, calls, avg>>
  /\ UNCHANGED <<accVars, dec>>

TaskSystemdAnalyze ==
  \E cmd \in AnalyzeCommands :
    TaskReturns("recordSystemdAnalyze", cmd, RetrieveBootTimeWithSystemdAnalyze(cmd))

TaskSystemdDbus ==
  \E bus \in DbusReplies :
    TaskReturns("recordSystemdDbus", bus, RetrieveBootTimeWithDbus(bus))

TaskEFIVars ==
  \E efi \in EFIDirs :
    TaskReturns("recordEFIVars", efi, RetrieveBootTimeWithEFIVars(efi))

\* RunAnalysis from the return of g.Wait to its own return.  openOk, writeOk:
\* whether os.OpenFile and the write of the encoded line succeed.
Join ==
  /\ pc = "running"
  /\ WaitReturns(tasks)
  /\ pc' = "idle"
  /\ \E openOk, writeOk \in BOOLEAN :
       IF gerr # NoErr
         THEN /\ ret' = [kind |-> "err", rec |-> Nil, err |-> gerr]
              /\ UNCHANGED <<file, okLines>>
       ELSE IF \E t \in Tasks : tasks[t].rec = Nil
         THEN \* the map literal dereferences a nil result: run-time panic
              /\ ret' = [kind |-> "panic", rec |-> Nil, err |-> NoErr]
              /\ UNCHANGED <<file, okLines>>
       ELSE IF ~openOk
         THEN /\ ret' = [kind |-> "err", rec |-> Nil,
                         err |-> <<"opening file", "permission denied">>]
              /\ UNCHANGED <<file, okLines>>
       ELSE IF ~writeOk
         THEN /\ ret' = [kind |-> "err", rec |-> Nil,
                         err |-> <<"encoding analysis results to jsonl file",
                                   "write">>]
              /\ file' = CreateIfMissing(file)
              /\ UNCHANGED okLines
       ELSE /\ ret' = [kind |-> "ok", rec |-> MergeValues(tasks), err |-> NoErr]
            /\ file' = WriteAppending(file, Marshal(MergeValues(tasks)))
            /\ okLines' = Append(okLines, MergeValues(tasks))
  /\ UNCHANGED <<tasks, gerr, order, fileAtCall, file0, calls, avg>>
  /\ UNCHANGED <<accVars, dec>>

\* A run of the program with -A: PrintRecordsAverage, whole: open, read every
\* record, fold, average, print
PrintRecordsAverage ==
  /\ pc = "idle"
  /\ LET read == BootTimeRecordsFromFile(file.lines)
     IN avg' =
          IF ~file.exists
            THEN [ran |-> TRUE, lines |-> <<>>,
                  err |-> <<"opening file", "no such file or directory">>,
                  printed |-> <<>>]
          ELSE IF read.err # NoErr
            THEN [ran |-> TRUE, lines |-> file.lines,
                  err |-> Wrap("reading boot time records from file", read.err),
                  printed |-> <<>>]
          ELSE [ran |-> TRUE, lines |-> file.lines, err |-> NoErr,
                printed |-> <<[records |-> Len(read.records)],
                              [Values |-> Average(AddAll(NewBootTimeAccumulator,
                                                         read.records))]>>]
  /\ tasks' = [t \in Tasks |-> TaskIdle]
  /\ gerr' = NoErr
  /\ order' = <<>>
  /\ ret' = NoReturn
  /\ UNCHANGED <<file, pc, fileAtCall, file0, okLines, calls>>
  /\ UNCHANGED <<accVars, dec>>

Next ==
  \/ Start
  \/ TaskSystemdAnalyze
  \/ TaskSystemdDbus
  \/ TaskEFIVars
  \/ Join
  \/ PrintRecordsAverage

Spec == Init /\ [][Next]_vars

-----------------------------------------------------------------------------
(* The accumulator on its own: any sequence of Add and Average calls *)

\* the Values of the records handed to Add
AccRecords ==
  { EmptyMap,
    [s \in {BootTimeStageFirmware} |-> EmptyMap],
    [s \in {BootTimeStageUserspace} |-> [m \in {RetrievalMethodSystemdDBUS} |-> 1]],
    [s \in {BootTimeStageUserspace, BootTimeStageFirmware} |->
       IF s = BootTimeStageUserspace
         THEN [m \in {RetrievalMethodSystemdDBUS} |-> 2]
         ELSE [m \in {RetrievalMethodSystemdAnalyze} |-> 3]],
    [s \in {BootTimeStageUserspace} |->
       [m \in {RetrievalMethodSystemdDBUS, RetrievalMethodSystemdAnalyze} |->
          IF m = RetrievalMethodSystemdDBUS THEN -4 ELSE 0]] }

mainVars ==
  <<file, pc, tasks, gerr, order, ret, fileAtCall, file0, okLines, calls, avg>>

AccNew ==
  /\ acc' = NewBootTimeAccumulator
  /\ added' = <<>>
  /\ avgOut' = NoAverageOut
  /\ added # <<>>
  /\ UNCHANGED <<mainVars, dec>>

AccAdd ==
  /\ Len(added) < MaxAdds
  /\ \E r \in AccRecords :
       /\ acc' = Add(acc, r)
       /\ added' = Append(added, r)
  /\ UNCHANGED avgOut
  /\ UNCHANGED <<mainVars, dec>>

\* calls: the number of records added before each Average() call so far
AccAverage ==
  /\ Len(avgOut.calls) < MaxAverages
  /\ avgOut' = [ran |-> TRUE, after |-> Len(added), values |-> Average(acc),
                calls |-> Append(avgOut.calls, Len(added))]
  /\ acc' = AccumulatorAfterAverage(acc)
  /\ UNCHANGED added
  /\ UNCHANGED <<mainVars, dec>>

NextAcc ==
  \/ AccNew
  \/ AccAdd
  \/ AccAverage

SpecAcc == Init /\ [][NextAcc]_vars

-----------------------------------------------------------------------------
(* The decoders on their own: a run calls one decoder on one input *)

\* a run calls one decoder once
Called(fn, in, out) ==
  /\ dec = NoCall
  /\ dec' = [fn |-> fn, in |-> in, out |-> out]
  /\ UNCHANGED <<mainVars, accVars>>

DecParseAnalyzeCommandOutput ==
  /\ dec = NoCall
  /\ \E output \in AnalyzeOutputs :
       Called("ParseAnalyzeCommandOutput", output, ParseAnalyzeCommandOutput(output))

DecRetrieveBootTimeWithAnalyzeCommand ==
  /\ dec = NoCall
  /\ \E cmd \in AnalyzeRuns :
       Called("RetrieveBootTimeWithAnalyzeCommand", cmd,
              RetrieveBootTimeWithAnalyzeCommand(cmd))

DecRetrieveBootTimeWithSystemdAnalyze ==
  /\ dec = NoCall
  /\ \E cmd \in AnalyzeRuns :
       Called("RetrieveBootTimeWithSystemdAnalyze", cmd,
              RetrieveBootTimeWithSystemdAnalyze(cmd))

DecRetrieveBootTimeWithDbus ==
  /\ dec = NoCall
  /\ \E bus \in DbusBuses :
       Called("RetrieveBootTimeWithDbus", bus, RetrieveBootTimeWithDbus(bus))

DecRetrieveBootTimeWithEFIVars ==
  /\ dec = NoCall
  /\ \E run \in EFIRuns \cup {[efi |-> d] : d \in EFIListings} :
       Called("RetrieveBootTimeWithEFIVars", run,
              RetrieveBootTimeWithEFIVars(run.efi))

DecRetrieveBootTimeRecord ==
  /\ dec = NoCall
  /\ \E sys \in ACPISystems :
       Called("RetrieveBootTimeRecord", sys, RetrieveBootTimeRecord(sys))

NextDec ==
  \/ DecParseAnalyzeCommandOutput
  \/ DecRetrieveBootTimeWithAnalyzeCommand
  \/ DecRetrieveBootTimeWithSystemdAnalyze
  \/ DecRetrieveBootTimeWithDbus
  \/ DecRetrieveBootTimeWithEFIVars
  \/ DecRetrieveBootTimeRecord

SpecDec == Init /\ [][NextDec]_vars

-----------------------------------------------------------------------------
(* Properties *)

\* the goroutines that returned a non-nil error
Failed == {t \in Tasks : tasks[t].done /\ tasks[t].err # NoErr}

\* the RunAnalysis call has ended: it returned, or the process died
CallEnded == pc = "idle" /\ ret.kind # "none"

\* C1: all-or-nothing acquisition.  Whenever at least one goroutine of a
\* RunAnalysis call has failed, whatever the order in which the goroutines
\* return, the call does not succeed and appends nothing: once the join has
\* returned the call returns an error (it ends without a return only when a
\* goroutine panics while the join is still waiting), and during and after
\* the call the file is what it was before the call.
C1_AllOrNothing ==
  /\ pc = "running" => file = fileAtCall
  /\ (CallEnded /\ Failed # {}) =>
       /\ file = fileAtCall
       /\ ret.rec = Nil
       /\ \/ ret.kind = "err" /\ ret.err # NoErr
          \/ ret.kind = "panic" /\ ~WaitReturns(tasks)

\* a call that returned after exactly one goroutine failed, the failing one
\* being neither the first nor the last to return, on a file that held lines
C1_Witness ==
  /\ CallEnded
  /\ ret.kind = "err"
  /\ Cardinality(Failed) = 1
  /\ Len(order) = 3
  /\ order[2] \in Failed
  /\ file.lines # <<>>

\* the goroutines that failed, in the order they returned
FailedInOrder == SelectSeq(order, LAMBDA t : tasks[t].err # NoErr)

\* C2: first failure wins, and cancels nothing.  RunAnalysis returns from the
\* join only after every goroutine has returned (each exactly once, failures
\* of others notwithstanding); when goroutines failed, the error returned is
\* the error of the one that failed first in time, wrapped with its
\* source name, and no record is returned.
C2_FirstFailureWins ==
  (pc = "idle" /\ ret.kind \in {"ok", "err"}) =>
    /\ \A t \in Tasks : tasks[t].done
    /\ Len(order) = Cardinality(Tasks)
    /\ Range(order) = Tasks
    /\ FailedInOrder # <<>> =>
         /\ ret.kind = "err"
         /\ ret.err = Wrap(SourceName(FailedInOrder[1]), tasks[FailedInOrder[1]].err)
         /\ ret.rec = Nil

\* two goroutines failed one after the other, then the third ran to
\* completion and produced its record, and the call returned
C2_Witness ==
  /\ pc = "idle"
  /\ ret.kind = "err"
  /\ Len(order) = 3
  /\ order[1] \in Failed
  /\ order[2] \in Failed
  /\ tasks[order[1]].err # tasks[order[2]].err
  /\ tasks[order[3]].err = NoErr
  /\ tasks[order[3]].rec # Nil

\* the retrieval methods that tag a cell of a Values map
MethodsIn(values) == {c[2] : c \in Cells(values)}

\* C3: one goroutine per retrieval method: RunAnalysis starts one goroutine
\* for each of acpi_fpdt, efi_var, systemd_dbus and systemd_analyze, and the
\* record of a successful acquisition holds cells tagged with each of the four.
C3_OneTaskPerMethod ==
  ret.kind = "ok" =>
    /\ {MethodOf(t) : t \in Tasks} = Range(allRetrievalMethods)
    /\ MethodsIn(ret.rec) = Range(allRetrievalMethods)

\* the lines the successful calls wrote, in call order
LinesOf(recs) == [i \in 1..Len(recs) |-> Marshal(recs[i])]

\* C4: append-only persistence.  After any sequence of RunAnalysis calls,
\* successful or not, the file holds the lines it held before the first call
\* followed by exactly one line per successful call, in call order; a call
\* that succeeds leaves the file existing, with the lines it had before the
\* call followed by the one line of the record it returns.
C4_AppendOnly ==
  /\ file.lines = file0.lines \o LinesOf(okLines)
  /\ Len(okLines) <= calls
  /\ ret.kind = "ok" =>
       /\ file.exists
       /\ file.lines = Append(fileAtCall.lines, Marshal(ret.rec))
       /\ okLines[Len(okLines)] = ret.rec

\* a successful call followed by a failed one, on a file that held lines
\* before the first call
C4_Witness ==
  /\ calls = 2
  /\ CallEnded
  /\ ret.kind = "err"
  /\ Len(okLines) = 1
  /\ file0.lines # <<>>
  /\ Len(file.lines) = Len(file0.lines) + 1

\* the label whose word gives a stage in the systemd-analyze line
LabelOf(stage) ==
  CASE stage = BootTimeStageFirmware -> "(firmware)"
    [] stage = BootTimeStageLoader -> "(loader)"
    [] stage = BootTimeStageKernel -> "(kernel)"
    [] stage = BootTimeStageInitrd -> "(initrd)"
    [] stage = BootTimeStageUserspace -> "(userspace)"
    [] stage = BootTimeStageTotal -> "="

\* the first line of a command's stdout
FirstLine(cmd) == IF cmd.out = <<>> THEN <<>> ELSE cmd.out[1]

\* the systemd-analyze line gives the stage
AnalyzeProvides(cmd, stage) ==
  \E i \in DOMAIN FirstLine(cmd) : Contains(FirstLine(cmd)[i], LabelOf(stage))

\* the guard of the D-Bus derivation of the stage is met
DbusProvides(bus, stage) ==
  LET ts(n) == PropertyValue(bus, n)
  IN CASE stage = BootTimeStageFirmware ->
            ts("FirmwareTimestampMonotonic") > 0 /\ ts("LoaderTimestampMonotonic") > 0
       [] stage = BootTimeStageLoader -> ts("LoaderTimestampMonotonic") > 0
       [] stage = BootTimeStageKernel -> TRUE
       [] stage = BootTimeStageInitrd ->
            ts("InitRDTimestampMonotonic") > 0 /\ ts("UserspaceTimestampMonotonic") > 0
       [] stage = BootTimeStageUserspace ->
            ts("FinishTimestampMonotonic") > 0 /\ ts("UserspaceTimestampMonotonic") > 0
       [] stage = BootTimeStageTotal ->
            ts("FirmwareTimestampMonotonic") > 0 /\ ts("FinishTimestampMonotonic") > 0

\* C5: sparse record.  In the record of a successful acquisition, a stage the
\* systemd-analyze line has no label for has no systemd_analyze cell, and a
\* stage whose D-Bus guard is not met has no systemd_dbus cell (the cell is
\* absent, not present with the value 0).
C5_SparseRecord ==
  ret.kind = "ok" =>
    \A s \in Range(allBootTimeStages) :
      /\ ~AnalyzeProvides(tasks["recordSystemdAnalyze"].input, s) =>
           <<s, RetrievalMethodSystemdAnalyze>> \notin Cells(ret.rec)
      /\ ~DbusProvides(tasks["recordSystemdDbus"].input, s) =>
           <<s, RetrievalMethodSystemdDBUS>> \notin Cells(ret.rec)

\* the values the records recs hold in cell (s, m), in order
RECURSIVE CellValues(_, _, _)
CellValues(recs, s, m) ==
  IF recs = <<>> THEN <<>>
  ELSE (IF <<s, m>> \in Cells(Head(recs)) THEN <<Head(recs)[s][m]>> ELSE <<>>)
         \o CellValues(Tail(recs), s, m)

RECURSIVE SumOf(_)
SumOf(values) == IF values = <<>> THEN 0 ELSE Head(values) + SumOf(Tail(values))

\* the records that had been added when Average was last called
AveragedRecords == SubSeq(added, 1, avgOut.after)

\* the cells some record of recs populates
PopulatedCells(recs) == UNION {Cells(recs[i]) : i \in DOMAIN recs}

\* C6: Average is the per-cell mean.  For the records added to a fresh
\* accumulator, Average() holds exactly the cells some added record
\* populates, and in each the mean of the values of the records that populate
\* it: their sum divided by their number (records lacking the cell do not
\* count), in time.Duration's integer arithmetic, whose quotient is cut toward
\* zero.
C6_AverageIsMean ==
  avgOut.ran =>
    /\ Cells(avgOut.values) = PopulatedCells(AveragedRecords)
    /\ \A c \in Cells(avgOut.values) :
         LET vs == CellValues(AveragedRecords, c[1], c[2])
         IN avgOut.values[c[1]][c[2]] = GoDiv(SumOf(vs), Len(vs))

\* three records were averaged, two of which populate userspace/systemd_dbus
\* (with the values 1 and 2) and one of which does not
C6_Witness ==
  /\ avgOut.ran
  /\ avgOut.after = 3
  /\ CellValues(AveragedRecords, BootTimeStageUserspace, RetrievalMethodSystemdDBUS)
       \in {<<1, 2>>, <<2, 1>>}
  /\ avgOut.values[BootTimeStageUserspace][RetrievalMethodSystemdDBUS] = 1

\* C7: no division by zero.  After any sequence of Add calls (none, or with
\* records whose method maps are empty, too) sum and count have the same
\* keys at both levels and every cell of sum has a count of at least 1; a
\* cell no added record populated is absent from what Average() returns.
C7_NoZeroCount ==
  /\ DOMAIN acc.sum = DOMAIN acc.count
  /\ \A s \in DOMAIN acc.sum :
       /\ DOMAIN acc.sum[s] = DOMAIN acc.count[s]
       /\ \A m \in DOMAIN acc.sum[s] : acc.count[s][m] >= 1
  /\ Cells(acc.sum) = PopulatedCells(added)
  /\ avgOut.ran => Cells(avgOut.values) \subseteq PopulatedCells(AveragedRecords)

\* Average was called after a record without stages, a record whose firmware
\* stage has an empty method map and a record with cells had been added
C7_Witness ==
  /\ avgOut.ran
  /\ avgOut.after = Len(added)
  /\ \E i, j, k \in DOMAIN added :
       /\ DOMAIN added[i] = {}
       /\ BootTimeStageFirmware \in DOMAIN added[j]
       /\ DOMAIN added[j][BootTimeStageFirmware] = {}
       /\ Cells(added[k]) # {}
  /\ BootTimeStageFirmware \in DOMAIN avgOut.values

\* C8: averaging an empty dataset is an error.  When PrintRecordsAverage
\* reads zero records from the file, it fails and prints no average.
C8_EmptyDatasetIsError ==
  (avg.ran /\ BootTimeRecordsFromFile(avg.lines).records = <<>>) =>
    /\ avg.err # NoErr
    /\ avg.printed = <<>>

\* C9: a malformed line aborts the whole read.  If a line of the file is no
\* record, BootTimeRecordsFromFile returns an error and no records (those of
\* the lines before it are dropped, too), and PrintRecordsAverage fails with
\* that error, wrapped, and prints nothing.
C9_MalformedLineAborts ==
  (avg.ran /\ \E i \in DOMAIN avg.lines : UnmarshalBootTimeRecord(avg.lines[i]).err # NoErr) =>
    /\ BootTimeRecordsFromFile(avg.lines).err # NoErr
    /\ BootTimeRecordsFromFile(avg.lines).records = <<>>
    /\ avg.err = Wrap("reading boot time records from file",
                      BootTimeRecordsFromFile(avg.lines).err)
    /\ avg.printed = <<>>

\* the average was asked of a file whose malformed line stands between a
\* record before it and a record appended after it
C9_Witness ==
  /\ avg.ran
  /\ Len(avg.lines) = 3
  /\ UnmarshalBootTimeRecord(avg.lines[1]).err = NoErr
  /\ UnmarshalBootTimeRecord(avg.lines[2]).err # NoErr
  /\ UnmarshalBootTimeRecord(avg.lines[3]).err = NoErr
  /\ avg.err # NoErr

\* C10: round trip.  The line a successful RunAnalysis call writes, read back
\* with UnmarshalBootTimeRecord, yields the record the call returned: the
\* same populated cells with the same values.
C10_RoundTrip ==
  ret.kind = "ok" =>
    LET back == UnmarshalBootTimeRecord(file.lines[Len(file.lines)])
    IN /\ back.err = NoErr
       /\ DOMAIN back.values = DOMAIN ret.rec
       /\ Cells(back.values) = Cells(ret.rec)
       /\ \A c \in Cells(ret.rec) : back.values[c[1]][c[2]] = ret.rec[c[1]][c[2]]

\* a returned record with cells holding 0 and cells holding other values
C10_Witness ==
  /\ ret.kind = "ok"
  /\ \E c \in Cells(ret.rec) : ret.rec[c[1]][c[2]] = 0
  /\ \E c, d \in Cells(ret.rec) :
       /\ ret.rec[c[1]][c[2]] > 0
       /\ ret.rec[d[1]][d[2]] > 0
       /\ ret.rec[c[1]][c[2]] # ret.rec[d[1]][d[2]]

-----------------------------------------------------------------------------
(* Properties of the systemd-analyze parsers *)

\* the first line has the shape of CanonicalLine and its six duration tokens
\* are valid durations
IsCanonical(output) ==
  /\ output # <<>>
  /\ Len(output[1]) = 19
  /\ \E d1, d2, d3, d4, d5, d6 \in {w \in AnalyzeWords : ParseDuration(w).ok} :
       output[1] = CanonicalLine(d1, d2, d3, d4, d5, d6)

\* the duration a token of the first line stands for
TokenDuration(output, i) == ParseDuration(output[1][i]).d

\* C11: for a text whose first line is "Startup finished in d1 (firmware) +
\* d2 (loader) + d3 (kernel) + d4 (initrd) + d5 (userspace) = d6" with valid
\* durations, ParseAnalyzeCommandOutput succeeds with Firmware = d1, Loader =
\* d2, Kernel = d3, Initrd = d4, Userspace = d5, Total = d6, whatever lines
\* follow the first.
C11_CanonicalLineParsed ==
  (dec.fn = "ParseAnalyzeCommandOutput" /\ IsCanonical(dec.in))
    => dec.out = [rec |-> [Firmware |-> TokenDuration(dec.in, 4),
                           Loader |-> TokenDuration(dec.in, 7),
                           Kernel |-> TokenDuration(dec.in, 10),
                           Initrd |-> TokenDuration(dec.in, 13),
                           Userspace |-> TokenDuration(dec.in, 16),
                           Total |-> TokenDuration(dec.in, 19)],
                  err |-> NoErr, panic |-> FALSE]

\* a canonical first line with unlike durations, followed by a line that
\* itself holds a label and "=", has been parsed
C11_Witness ==
  /\ dec.fn = "ParseAnalyzeCommandOutput"
  /\ IsCanonical(dec.in)
  /\ Len(dec.in) > 1
  /\ "(kernel)" \in Range(dec.in[2])
  /\ dec.in[1][4] # dec.in[1][7]
  /\ dec.in[1][16] # dec.in[1][19]
  /\ dec.out.err = NoErr
  /\ dec.out.rec.Firmware # dec.out.rec.Loader

\* C12: ParseAnalyzeCommandOutput on the empty string returns no record and
\* ErrParseAnalyzeCommandEmptyOutput.
C12_EmptyOutputError ==
  (dec.fn = "ParseAnalyzeCommandOutput" /\ dec.in = <<>>)
    => dec.out = [rec |-> Nil, err |-> ErrParseAnalyzeCommandEmptyOutput,
                  panic |-> FALSE]

C12_Witness ==
  /\ dec.fn = "ParseAnalyzeCommandOutput"
  /\ dec.in = <<>>
  /\ dec.out.err = ErrParseAnalyzeCommandEmptyOutput

\* the positions of words the switch matches to a label or to "="
Matched(words) == {i \in DOMAIN words : SwitchField(words[i]) # ""}

\* the token a matched position takes its duration from lies in words
HasToken(words, i) ==
  LET src == SourceIndex(SwitchField(words[i]), i)
  IN src >= 1 /\ src <= Len(words)

\* the loop comes to a matched position whose token is no valid duration
ReachesBadToken(words) ==
  \E i \in Matched(words) :
    /\ \A j \in Matched(words) : j <= i => HasToken(words, j)
    /\ ~ParseDuration(words[SourceIndex(SwitchField(words[i]), i)]).ok

\* C13: when a token matched to a stage label or to "=" is no valid duration,
\* ParseAnalyzeCommandOutput returns an error and no record, also when stages
\* before it on the line were parsed.
C13_BadDurationNoRecord ==
  (/\ dec.fn = "ParseAnalyzeCommandOutput"
   /\ dec.in # <<>>
   /\ ReachesBadToken(dec.in[1]))
    => (dec.out.rec = Nil /\ dec.out.err # NoErr /\ ~dec.out.panic)

\* firmware and loader of the line were parsed, the kernel token is bad
C13_Witness ==
  /\ dec.fn = "ParseAnalyzeCommandOutput"
  /\ dec.in # <<>>
  /\ Len(dec.in[1]) = 19
  /\ ParseDuration(dec.in[1][4]).ok
  /\ ParseDuration(dec.in[1][7]).ok
  /\ ~ParseDuration(dec.in[1][10]).ok
  /\ ReachesBadToken(dec.in[1])
  /\ dec.out.rec = Nil
  /\ dec.out.err = <<"parsing kernel duration", "time: invalid duration">>

\* stdout from which no duration can be read: empty, or a first line without
\* a stage label and without "="
Unparsable(output) == output = <<>> \/ Matched(output[1]) = {}

\* C14: RetrieveBootTimeWithSystemdAnalyze returns an error, never a record,
\* when the command exits non-zero or its stdout is empty or has a first line
\* without stage label and without "=".
C14_UnparsableStdoutFails ==
  (/\ dec.fn = "RetrieveBootTimeWithSystemdAnalyze"
   /\ (~dec.in.ok \/ Unparsable(dec.in.out)))
    => (dec.out.err # NoErr /\ dec.out.rec = Nil)

-----------------------------------------------------------------------------
(* Properties of the EFI and D-Bus decoders *)

\* a number of microseconds as a time.Duration
Microseconds(n) == n * 1000

\* RetrieveBootTimeWithEFIVars was run on two variables that hold numbers
EFIDecoded ==
  /\ dec.fn = "RetrieveBootTimeWithEFIVars"
  /\ "init" \in DOMAIN dec.in
  /\ dec.in.init.valid
  /\ dec.in.exec.valid

\* C15: for variables that decode to init_usec and exec_usec,
\* RetrieveBootTimeWithEFIVars returns Firmware = init_usec and Loader =
\* exec_usec - init_usec microseconds when exec_usec >= init_usec, and no
\* record and the error "exec time < init time" when exec_usec < init_usec.
C15_EFIDerivation ==
  EFIDecoded =>
    IF dec.in.exec.usec >= dec.in.init.usec
      THEN dec.out =
             [rec |-> [Firmware |-> Microseconds(dec.in.init.usec),
                       Loader |-> Microseconds(dec.in.exec.usec - dec.in.init.usec)],
              err |-> NoErr, panic |-> FALSE]
      ELSE dec.out =
             [rec |-> Nil, err |-> <<"EFI loader exec time < init time">>,
              panic |-> FALSE]

\* the variables held 100 and 250; the decoder returned 100us and 150us
C15_Witness ==
  /\ EFIDecoded
  /\ dec.in.init.usec = 100
  /\ dec.in.exec.usec = 250
  /\ dec.out.rec = [Firmware |-> 100000, Loader |-> 150000]

\* the variables held an exec time below the init time; the decoder failed
C15_WitnessFailure ==
  /\ EFIDecoded
  /\ dec.in.init.usec = 3
  /\ dec.in.exec.usec = 2
  /\ dec.out.rec = Nil
  /\ dec.out.err # NoErr

\* RetrieveBootTimeWithDbus was run on a bus it could connect to
DbusRead == dec.fn = "RetrieveBootTimeWithDbus" /\ dec.in.connOk

\* the manager exposes the property as a uint64
Exposed(bus, name) == bus.props[name].ok

\* the finish timestamp is zero: exposed as 0, or not exposed
FinishIsZero(bus) ==
  \/ ~Exposed(bus, "FinishTimestampMonotonic")
  \/ bus.props["FinishTimestampMonotonic"].val = 0

\* C16: when the finish timestamp is zero, RetrieveBootTimeWithDbus returns
\* no record and the error "bootup is not yet finished", whatever the other
\* four timestamps are.
C16_BootNotFinished ==
  (DbusRead /\ FinishIsZero(dec.in))
    => dec.out = [rec |-> Nil, err |-> <<"bootup is not yet finished">>,
                  panic |-> FALSE]

\* the finish timestamp was 0 while the other four were exposed and nonzero
C16_Witness ==
  /\ DbusRead
  /\ \A n \in DbusProperties : Exposed(dec.in, n)
  /\ \A n \in DbusProperties \ {"FinishTimestampMonotonic"} :
       dec.in.props[n].val > 0
  /\ dec.in.props["FinishTimestampMonotonic"].val = 0
  /\ dec.out.err = <<"bootup is not yet finished">>

\* the bus with the property exposed with value v
WithProperty(bus, name, v) == [bus EXCEPT !.props[name] = [ok |-> TRUE, val |-> v]]

\* C17: a property the manager does not expose is left at zero and its
\* absence is no failure of its own: the call returns what it returns when
\* the property is exposed with the value 0, and a call that lacks any of
\* firmware, loader, initrd, userspace succeeds whenever the finish timestamp
\* is nonzero.
C17_TolerantRead ==
  DbusRead =>
    \A n \in DbusProperties :
      ~Exposed(dec.in, n) =>
        /\ dec.out = RetrieveBootTimeWithDbus(WithProperty(dec.in, n, 0))
        /\ (~FinishIsZero(dec.in) => dec.out.err = NoErr /\ dec.out.rec # Nil)

\* the manager exposed only the finish timestamp; the call succeeded with
\* zero stages
C17_Witness ==
  /\ DbusRead
  /\ \A n \in DbusProperties \ {"FinishTimestampMonotonic"} : ~Exposed(dec.in, n)
  /\ Exposed(dec.in, "FinishTimestampMonotonic")
  /\ dec.in.props["FinishTimestampMonotonic"].val > 0
  /\ dec.out.err = NoErr
  /\ dec.out.rec = BootTimeRecordWithSystemd

-----------------------------------------------------------------------------
(* Properties of the ACPI decoder *)

\* both sysfs attributes can be read and hold unsigned decimal numbers
PrimaryOk(sys) ==
  sys.launch.ok /\ sys.launch.valid /\ sys.exit.ok /\ sys.exit.valid

SysfsFiles ==
  {AttributePath("bootloader_launch_ns"), AttributePath("exitbootservice_end_ns")}

\* C18: RetrieveBootTimeRecord tries the sysfs attributes first.  When both
\* can be read and parse, it returns Firmware = launch_ns and Loader =
\* exit_ns - launch_ns and opens neither the table file nor /dev/mem.  When
\* the sysfs path fails, its error is dropped and the record or error
\* returned is that of the raw-table path.
C18_ACPIPathOrder ==
  dec.fn = "RetrieveBootTimeRecord" =>
    IF PrimaryOk(dec.in)
      THEN /\ dec.out.rec = [Firmware |-> dec.in.launch.ns,
                             Loader |-> dec.in.exit.ns - dec.in.launch.ns]
           /\ dec.out.err = NoErr
           /\ Range(dec.out.reads) = SysfsFiles
      ELSE LET table == retrieveBootTimeFromTablePointer(dec.in)
           IN /\ dec.out.rec = table.rec
              /\ dec.out.err = table.err
              /\ dec.out.reads[1] = AttributePath("bootloader_launch_ns")
              /\ pathFPDTTableFile \in Range(dec.out.reads)
              /\ \A i \in DOMAIN dec.out.err :
                   dec.out.err[i] \notin
                     {"reading attribute bootloader_launch_ns",
                      "reading attribute exitbootservice_end_ns"}

\* the sysfs attributes were good on a machine whose raw table would have
\* given another record: the sysfs record was returned, the table not read
C18_Witness ==
  /\ dec.fn = "RetrieveBootTimeRecord"
  /\ PrimaryOk(dec.in)
  /\ retrieveBootTimeFromTablePointer(dec.in).err = NoErr
  /\ retrieveBootTimeFromTablePointer(dec.in).rec # dec.out.rec
  /\ dec.out.rec = [Firmware |-> 1, Loader |-> 1]
  /\ pathFPDTTableFile \notin Range(dec.out.reads)

\* the second sysfs attribute was bad: the record came from the raw table
C18_WitnessFallback ==
  /\ dec.fn = "RetrieveBootTimeRecord"
  /\ dec.in.launch.valid
  /\ ~dec.in.exit.valid
  /\ dec.out.err = NoErr
  /\ dec.out.rec = [Firmware |-> 5, Loader |-> 4]
  /\ dec.out.reads[Len(dec.out.reads)] = pathDevMem

-----------------------------------------------------------------------------
(* Properties of all decoders, and of the fan-out of RunAnalysis *)

\* C19: every duration of a record a decoder returns is non-negative,
\* whatever raw values the decoder accepts (sysfs exit_ns < launch_ns, D-Bus
\* timestamps out of order, EFI numbers with a sign).
C19_NonNegativeDurations ==
  (/\ dec.fn \in {"RetrieveBootTimeRecord", "RetrieveBootTimeWithDbus",
                  "RetrieveBootTimeWithEFIVars"}
   /\ dec.out.rec # Nil)
    => \A f \in DOMAIN dec.out.rec : dec.out.rec[f] >= 0

\* C20: a result variable of RunAnalysis is written only by its own
\* goroutine, in the step in which that goroutine returns (or declared anew
\* by the next run), and the merge reads the result variables in a step
\* taken when every goroutine has returned, which writes none of them.
C20_NoSharedResultVariable ==
  [][/\ \A v \in Tasks :
          tasks'[v] # tasks[v]
            => (order' = Append(order, v) \/ tasks' = [t \in Tasks |-> TaskIdle])
     /\ (ret.kind = "none" /\ ret'.kind = "ok")
          => (/\ WaitReturns(tasks)
              /\ tasks' = tasks
              /\ ret'.rec = MergeValues(tasks))]_vars

\* the goroutines returned in the reverse of the order they were started
\* in, and the merge was made of their three records
C20_Witness ==
  /\ order = <<"recordEFIVars", "recordSystemdDbus", "recordSystemdAnalyze">>
  /\ pc = "idle"
  /\ ret.kind = "ok"
  /\ \A t \in Tasks : tasks[t].done /\ tasks[t].rec # Nil
  /\ ret.rec[BootTimeStageFirmware][RetrievalMethodEFIVar]
       = tasks["recordEFIVars"].rec.Firmware

-----------------------------------------------------------------------------
(* Properties of the merge *)

\* the struct field of a decoder's record that holds a stage
FieldOf(stage) ==
  CASE stage = BootTimeStageFirmware -> "Firmware"
    [] stage = BootTimeStageLoader -> "Loader"
    [] stage = BootTimeStageKernel -> "Kernel"
    [] stage = BootTimeStageInitrd -> "Initrd"
    [] stage = BootTimeStageUserspace -> "Userspace"
    [] stage = BootTimeStageTotal -> "Total"

\* C21: in the record of a successful acquisition every cell (s, m) holds the
\* value the decoder of method m returned for stage s, every value a decoder
\* returned is filed in its cell, and efi_var and acpi_fpdt occur only under
\* firmware and loader.
C21_MergeCorrect ==
  (pc = "idle" /\ ret.kind = "ok") =>
    /\ \A c \in Cells(ret.rec) :
         \E t \in Tasks :
           /\ MethodOf(t) = c[2]
           /\ FieldOf(c[1]) \in DOMAIN tasks[t].rec
           /\ ret.rec[c[1]][c[2]] = tasks[t].rec[FieldOf(c[1])]
    /\ \A t \in Tasks : \A s \in Range(allBootTimeStages) :
         FieldOf(s) \in DOMAIN tasks[t].rec => <<s, MethodOf(t)>> \in Cells(ret.rec)
    /\ \A c \in Cells(ret.rec) :
         c[2] \in {RetrievalMethodEFIVar, RetrievalMethodACPIFPDT}
           => c[1] \in {BootTimeStageFirmware, BootTimeStageLoader}

\* a record was merged from decoders whose values differ from stage to stage
\* and from method to method
C21_Witness ==
  /\ pc = "idle"
  /\ ret.kind = "ok"
  /\ ret.rec[BootTimeStageFirmware][RetrievalMethodEFIVar] = 1000
  /\ ret.rec[BootTimeStageLoader][RetrievalMethodEFIVar] = 2000
  /\ ret.rec[BootTimeStageKernel][RetrievalMethodSystemdAnalyze]
       # ret.rec[BootTimeStageKernel][RetrievalMethodSystemdDBUS]
  /\ ret.rec[BootTimeStageKernel][RetrievalMethodSystemdAnalyze]
       # ret.rec[BootTimeStageInitrd][RetrievalMethodSystemdAnalyze]

-----------------------------------------------------------------------------
(* Properties of the D-Bus derivation *)

\* the timestamp the manager reports for a property, 0 when not exposed
Timestamp(bus, name) == IF Exposed(bus, name) THEN bus.props[name].val ELSE 0

\* C22: every successful D-Bus read returns Total = firmware_ts + finish_ts
\* microseconds, also when firmware_ts is 0.
C22_DbusTotal ==
  (DbusRead /\ dec.out.err = NoErr)
    => dec.out.rec.Total =
         Microseconds(Timestamp(dec.in, "FirmwareTimestampMonotonic")
                      + Timestamp(dec.in, "FinishTimestampMonotonic"))

\* C23: for every combination of timestamps with finish_ts > 0 the stages
\* are Kernel = initrd_ts if initrd_ts > 0 else userspace_ts (no guard),
\* Firmware = firmware_ts - loader_ts if both > 0, Loader = loader_ts if
\* loader_ts > 0, Initrd = userspace_ts - initrd_ts if both > 0, Userspace =
\* finish_ts - userspace_ts if both > 0, in microseconds; a stage whose guard
\* fails stays at zero.
C23_DbusStages ==
  (DbusRead /\ ~FinishIsZero(dec.in)) =>
    LET firmware_ts == Timestamp(dec.in, "FirmwareTimestampMonotonic")
        loader_ts == Timestamp(dec.in, "LoaderTimestampMonotonic")
        initrd_ts == Timestamp(dec.in, "InitRDTimestampMonotonic")
        userspace_ts == Timestamp(dec.in, "UserspaceTimestampMonotonic")
        finish_ts == Timestamp(dec.in, "FinishTimestampMonotonic")
    IN /\ dec.out.err = NoErr
       /\ dec.out.rec.Kernel =
            Microseconds(IF initrd_ts > 0 THEN initrd_ts ELSE userspace_ts)
       /\ dec.out.rec.Firmware =
            (IF firmware_ts > 0 /\ loader_ts > 0
               THEN Microseconds(firmware_ts - loader_ts) ELSE 0)
       /\ dec.out.rec.Loader =
            (IF loader_ts > 0 THEN Microseconds(loader_ts) ELSE 0)
       /\ dec.out.rec.Initrd =
            (IF userspace_ts > 0 /\ initrd_ts > 0
               THEN Microseconds(userspace_ts - initrd_ts) ELSE 0)
       /\ dec.out.rec.Userspace =
            (IF userspace_ts > 0
               THEN Microseconds(finish_ts - userspace_ts) ELSE 0)

\* a machine without initrd: Kernel is the userspace timestamp, Initrd stays
\* zero, the other stages are set
C23_Witness ==
  /\ DbusRead
  /\ Timestamp(dec.in, "InitRDTimestampMonotonic") = 0
  /\ Timestamp(dec.in, "UserspaceTimestampMonotonic") = 1
  /\ Timestamp(dec.in, "FirmwareTimestampMonotonic") = 2
  /\ Timestamp(dec.in, "LoaderTimestampMonotonic") = 1
  /\ Timestamp(dec.in, "FinishTimestampMonotonic") = 2
  /\ dec.out.rec = [Firmware |-> 1000, Loader |-> 1000, Kernel |-> 1000,
                    Initrd |-> 0, Userspace |-> 1000, Total |-> 4000]

-----------------------------------------------------------------------------
(* Properties of the raw-table path of the ACPI decoder *)

\* the offset of the first sub-record of the given type met when the
\* sub-records from off on are taken one after another, each as long as its
\* own header declares; -1 when the data or a zero length ends the sequence
RECURSIVE FindRecord(_, _, _)
FindRecord(data, off, type) ==
  IF off + 4 > Len(data) THEN -1
  ELSE IF data[off + 3] = 0 THEN -1
  ELSE IF Uint16LE(data, off + 1) = type THEN off
  ELSE FindRecord(data, off + data[off + 3], type)

\* the decoder was called and took the raw-table path
RawTableRead ==
  dec.fn = "RetrieveBootTimeRecord" /\ ~PrimaryOk(dec.in)

\* a timer field small enough to be compared as a number
SmallTimer(x) == \A i \in 4..8 : x[i] = 0

\* C24: the record made from the Type-2 record has Firmware =
\* OSLoaderLoadImageStart if that is nonzero, else ResetEnd, and Loader =
\* ExitBootServicesExit - OSLoaderLoadImageStart if ExitBootServicesExit >
\* OSLoaderLoadImageStart, else zero; Loader is never negative.
C24_RawTableDerivation ==
  (RawTableRead /\ dec.out.err = NoErr) =>
    LET off == FindRecord(dec.in.mem.bytes, tableHeaderSize, 2)
        ResetEnd == U64At(dec.in.mem.bytes, off + 9)
        OSLoaderLoadImageStart == U64At(dec.in.mem.bytes, off + 17)
        ExitBootServicesExit == U64At(dec.in.mem.bytes, off + 41)
        reset == BytesValue(ResetEnd, 1)
        load == BytesValue(OSLoaderLoadImageStart, 1)
        exit == BytesValue(ExitBootServicesExit, 1)
    IN /\ dec.out.rec.Loader >= 0
       /\ (SmallTimer(ResetEnd) /\ SmallTimer(OSLoaderLoadImageStart)
           /\ SmallTimer(ExitBootServicesExit)) =>
            /\ dec.out.rec.Firmware = (IF load # 0 THEN load ELSE reset)
            /\ dec.out.rec.Loader = (IF exit > load THEN exit - load ELSE 0)

\* the table file holds a whole Type-0 record of at least 16 bytes among
\* its sub-records
HasPointerRecord(data) ==
  LET off == FindRecord(data, tableHeaderSize, 0)
  IN off >= 0 /\ data[off + 3] >= 16 /\ off + 16 <= Len(data)

PointerNotFound == <<"FPDT pointer not found in FPDT table">>

\* C25: when the table file holds a well-formed Type-0 pointer record at any
\* position among its sub-records, the walk finds it and the table at its
\* address is read from memory; the fallback fails with pointer-not-found
\* only when the sub-records hold no Type-0 record.
C25_PointerFound ==
  (RawTableRead /\ dec.in.table.ok
   /\ Len(dec.in.table.data) >= tableHeaderSize) =>
    LET data == dec.in.table.data
        off == FindRecord(data, tableHeaderSize, 0)
    IN /\ HasPointerRecord(data) =>
            /\ dec.out.err # PointerNotFound
            /\ dec.out.reads[Len(dec.out.reads)] = pathDevMem
            /\ LET record == readFPDTFromMemory(dec.in.mem,
                                                Uint64LE(data, off + 9))
               IN dec.out.rec = record.rec
       /\ dec.out.err = PointerNotFound => off = -1

NoBootRecord == <<"no boot performance record found in FPDT">>

\* C26: every step of the walk over the table file reads the header of the
\* sub-record it stands at, inside the buffer, consumes that sub-record's
\* declared length (or what is left of the buffer), and begins where the
\* step before it ended; a step that reads a zero length is the last.  The
\* walk over the table in memory fails with record-not-found when no Type-2
\* record is met before the table or a zero length ends it.
C26_WalksAdvance ==
  RawTableRead =>
    LET buf == SubSeq(dec.in.table.data, tableHeaderSize + 1,
                      Len(dec.in.table.data))
        steps == dec.out.steps
    IN /\ \A k \in DOMAIN steps :
            /\ steps[k].header = steps[k].pos
            /\ steps[k].header + 4 <= Len(buf)
            /\ steps[k].length = buf[steps[k].pos + 3]
            /\ steps[k].pos + steps[k].read <= Len(buf)
            /\ steps[k].length = 0 => k = Len(steps)
            /\ k > 1 => steps[k].pos = steps[k - 1].pos + steps[k - 1].read
       /\ (/\ dec.out.reads[Len(dec.out.reads)] = pathDevMem
           /\ dec.in.mem.ok
           /\ FindRecord(dec.in.mem.bytes, tableHeaderSize, 2) = -1)
            => /\ dec.out.rec = Nil
               /\ SubSeq(dec.out.err, Len(dec.out.err), Len(dec.out.err))
                    = NoBootRecord

-----------------------------------------------------------------------------
(* Properties of the EFI variable lookup *)

\* the position of the first entry whose name has the prefix, 0 if none has
FirstWithPrefix(entries, prefix) ==
  LET S == {i \in DOMAIN entries : HasPrefix(entries[i], prefix)}
  IN IF S = {} THEN 0 ELSE CHOOSE i \in S : \A j \in S : i <= j

\* the decoder was run on a listing of the efivars directory
EFIListed ==
  /\ dec.fn = "RetrieveBootTimeWithEFIVars"
  /\ "init" \notin DOMAIN dec.in
  /\ dec.in.efi.dirOk

\* C27: the init time is decoded from the first entry of the listing with
\* the prefix LoaderTimeInitUSec- and the exec time from the first entry
\* with the prefix LoaderTimeExecUSec-, also when several entries share a
\* prefix; when no entry has one of the prefixes the lookup fails with
\* variable-not-found.
C27_FirstEntryDecoded ==
  EFIListed =>
    LET entries == dec.in.efi.entries
        i0 == FirstWithPrefix(entries, "LoaderTimeInitUSec-")
        e0 == FirstWithPrefix(entries, "LoaderTimeExecUSec-")
    IN IF i0 = 0 \/ e0 = 0
         THEN /\ dec.out.rec = Nil
              /\ dec.out.err = <<"EFI loader timing variables not found">>
         ELSE LET initRaw == readEFIVarValue(dec.in.efi.files[entries[i0]])
                  execRaw == readEFIVarValue(dec.in.efi.files[entries[e0]])
                  initTime == parseEFIMicroseconds(initRaw.data)
                  execTime == parseEFIMicroseconds(execRaw.data)
              IN (/\ initRaw.err = NoErr /\ execRaw.err = NoErr
                  /\ initTime.err = NoErr /\ execTime.err = NoErr
                  /\ execTime.d >= initTime.d)
                   => dec.out.rec =
                        [Firmware |-> initTime.d,
                         Loader |-> execTime.d - initTime.d]

-----------------------------------------------------------------------------
(* Properties of Average() as a read *)

\* C28: Average() changes neither sum nor count: the accumulator is at all
\* times the fold of the records added, however many Average() calls were
\* made in between, and every record Average() returns is the one a first
\* call on the same records would return; so two calls with no Add in
\* between return equal records.
C28_AverageIsPureRead ==
  /\ acc = AddAll(NewBootTimeAccumulator, added)
  /\ avgOut.ran =>
       avgOut.values = Average(AddAll(NewBootTimeAccumulator, AveragedRecords))

\* Average() was called after the first record, after the second and once
\* more with no Add in between; the last call returned the mean of both
C28_Witness ==
  /\ avgOut.calls = <<1, 2, 2>>
  /\ Len(added) = 2
  /\ added[1] # added[2]
  /\ \A i \in 1..2 : <<BootTimeStageUserspace, RetrievalMethodSystemdDBUS>>
                        \in Cells(added[i])
  /\ avgOut.values[BootTimeStageUserspace][RetrievalMethodSystemdDBUS] = 1
  /\ acc.count[BootTimeStageUserspace][RetrievalMethodSystemdDBUS] = 2

-----------------------------------------------------------------------------
(* Properties of the token indexing of the parser, and of the join *)

\* C29: ParseAnalyzeCommandOutput returns a record or an error for every
\* first line, also when the first token contains a stage label or the last
\* token contains "=": it never indexes outside the token sequence.
C29_ParserNeverPanics ==
  dec.fn = "ParseAnalyzeCommandOutput" => ~dec.out.panic

\* C30: a goroutine that returned a nil error has assigned a non-nil record;
\* g.Wait() returns nil only if every goroutine returned nil; so the map
\* literal after the join never reads a nil record: a run never panics once
\* every goroutine has returned, and a run that returned a record was
\* merged from three non-nil records.
C30_NoNilResultMerged ==
  /\ \A t \in Tasks :
       (tasks[t].done /\ tasks[t].err = NoErr) => tasks[t].rec # Nil
  /\ (WaitReturns(tasks) /\ gerr = NoErr)
       => \A t \in Tasks : tasks[t].err = NoErr /\ tasks[t].rec # Nil
  /\ ret.kind = "panic" => ~WaitReturns(tasks)
  /\ ret.kind = "ok" => \A t \in Tasks : tasks[t].rec # Nil

\* one run failed in its D-Bus goroutine only and returned the error; the
\* next run's goroutines all returned nil and their records were merged
C30_Witness ==
  /\ calls = 2
  /\ pc = "idle"
  /\ ret.kind = "ok"
  /\ WaitReturns(tasks)
  /\ \A t \in Tasks : tasks[t].err = NoErr /\ tasks[t].rec # Nil
  /\ order[1] = "recordSystemdDbus"


====
